---- MODULE Spec2Model ----
(***************************************************************************)
(* Magic Stories booking client: slot generation, form validation,         *)
(* pricing, the BookingForm availability check and the BookingSummary      *)
(* confirmation, as state machines translated from the TypeScript source.  *)
(*                                                                         *)
(* Conventions.                                                            *)
(*  - A JavaScript string is a sequence of one-character strings, so that  *)
(*    split, trim, replace, startsWith and substring are computed.         *)
(*  - durationHours is a multiple of 0.5 in the source; here it is counted *)
(*    in half hours (2 stands for 1.0 h, 5 for 2.5 h).                     *)
(*  - A money amount is counted in 1/2000 of a hryvnia (MoneyScale), so    *)
(*    that a price with two decimals times 0.5 h, times 0.3 and times 0.5  *)
(*    stays a whole number; floating-point rounding is not represented.    *)
(*  - NaN is a value apart from the numbers, which are all non-negative    *)
(*    here; arithmetic propagates it and every comparison with it is       *)
(*    false, as in JavaScript.                                             *)
(***************************************************************************)
EXTENDS Integers, Sequences, FiniteSets, TLC

VARIABLES
    call,   \* the pure function under evaluation and its arguments
    ret     \* its returned value, or Pending before the call has run

\* BookingContext (the booking draft) and the BookingForm page
VARIABLES
    debounced,         \* FALSE: pages/BookingForm.tsx; TRUE: the debounced, cached BookingForm
    selectedLocation,
    bookingDate,
    bookingTime,
    durationHours,
    settings,          \* null until loadInitialData has succeeded
    loading,
    availableSlots,
    checkingSlots,
    error,
    debouncedDate,
    debouncedDuration,
    previousCheckRef,
    apiCache,          \* availability entries of the module-level cache
    queries,           \* the availability checks awaited and the latest one, in order
    now,               \* the wall clock
    renderedAt         \* the wall clock at the last render of the page

\* BookingContext contact data and the contact form of the mounted page,
\* and pages/BookingSummary
VARIABLES
    page,              \* the route that is mounted
    contactInfo,       \* BookingContext.contactInfo
    formData,          \* the formData state of the mounted page
    isSubmittingRef,
    submitLoading,     \* BookingSummary's loading state
    submitError,       \* BookingSummary's error state
    bookingComplete,
    requests,          \* the BookingRequests given to bookingService.create
    console            \* the last line handleConfirmBooking logged

\* BookingContext's services and cart, the ClothingRental page and the
\* provider's persistence
VARIABLES
    selectedServices,  \* BookingContext.selectedServices
    clothingCart,      \* BookingContext.clothingCart (adminPage: its own cart state)
    pendingAdds,       \* addToCart calls waiting for clothingService.checkAvailability
    rentalError,       \* ClothingRental's error state
    storage,           \* localStorage[STORAGE_KEY]
    renderedDraft,     \* the draft as BookingProvider last rendered it
    effects,           \* the passive effects of the last commit still to run
    ledger             \* the reservations the availability endpoint answers from

pureVars == <<call, ret>>
draftVars ==
    <<selectedServices, clothingCart, pendingAdds, rentalError, storage, renderedDraft,
      effects, ledger>>
summaryVars ==
    <<page, contactInfo, formData, isSubmittingRef, submitLoading, submitError,
      bookingComplete, requests, console>>
formVars ==
    <<debounced, selectedLocation, bookingDate, bookingTime, durationHours, settings,
      loading, availableSlots, checkingSlots, error, debouncedDate, debouncedDuration,
      previousCheckRef, apiCache, queries, now, renderedAt>>
vars == <<pureVars, formVars, summaryVars, draftVars>>

Pending == [done |-> FALSE]
Returned(v) == [done |-> TRUE, value |-> v]
NoCall == [fn |-> "none"]
NoSettings == [loaded |-> FALSE]
NoKey == <<>>

\* no page is mounted: the state of the pure-function specifications
FormIdle ==
    /\ debounced = FALSE
    /\ selectedLocation = [id |-> "none"]
    /\ bookingDate = <<>>
    /\ bookingTime = <<>>
    /\ durationHours = 4
    /\ settings = NoSettings
    /\ loading = FALSE
    /\ availableSlots = <<>>
    /\ checkingSlots = FALSE
    /\ error = ""
    /\ debouncedDate = <<>>
    /\ debouncedDuration = 4
    /\ previousCheckRef = NoKey
    /\ apiCache = <<>>
    /\ queries = <<>>
    /\ now = 0
    /\ renderedAt = 0

NoContact ==
    [firstName |-> <<>>, lastName |-> <<>>, phone |-> <<>>, email |-> <<>>,
     notes |-> <<>>]

ContactIdle ==
    /\ contactInfo = NoContact
    /\ formData = NoContact
    /\ isSubmittingRef = FALSE
    /\ submitLoading = FALSE
    /\ submitError = ""
    /\ bookingComplete = FALSE
    /\ requests = <<>>
    /\ console = ""

SummaryIdle == page = "none" /\ ContactIdle

NoStorage == [present |-> FALSE]
NoDraft == [rendered |-> FALSE]
DraftIdle ==
    /\ selectedServices = <<>>
    /\ clothingCart = <<>>
    /\ pendingAdds = <<>>
    /\ rentalError = ""
    /\ storage = NoStorage
    /\ renderedDraft = NoDraft
    /\ effects = <<>>

LedgerIdle == ledger = {}

(***************************************************************************)
(* JavaScript strings and numbers                                          *)
(***************************************************************************)
NaN == -1

DigitChars == <<"0", "1", "2", "3", "4", "5", "6", "7", "8", "9">>
Digits == {DigitChars[i] : i \in 1..10}
WhitespaceChars == {" ", "\t", "\n"}

DigitValue(c) == (CHOOSE i \in 1..10 : DigitChars[i] = c) - 1

IsNum(x) == x # NaN

\* a + b, a * b and a <= b on JavaScript numbers
JsAdd(a, b) == IF IsNum(a) /\ IsNum(b) THEN a + b ELSE NaN
JsMul(a, b) == IF IsNum(a) /\ IsNum(b) THEN a * b ELSE NaN
JsLe(a, b) == IsNum(a) /\ IsNum(b) /\ a <= b
JsLt(a, b) == IsNum(a) /\ IsNum(b) /\ a < b

RECURSIVE Join(_)
Join(parts) == IF parts = <<>> THEN <<>> ELSE Head(parts) \o Join(Tail(parts))

\* String.prototype.trim
RECURSIVE TrimStart(_)
TrimStart(s) ==
    IF s # <<>> /\ Head(s) \in WhitespaceChars THEN TrimStart(Tail(s)) ELSE s

RECURSIVE TrimEnd(_)
TrimEnd(s) ==
    IF s # <<>> /\ s[Len(s)] \in WhitespaceChars
    THEN TrimEnd(SubSeq(s, 1, Len(s) - 1))
    ELSE s

Trim(s) == TrimEnd(TrimStart(s))

\* String.prototype.split(sep) for a one-character separator: the pieces
\* between the occurrences of sep, in order
Split(s, sep) ==
    LET at == {i \in 1..Len(s) : s[i] = sep}
        nth(k) == CHOOSE i \in at : Cardinality({j \in at : j < i}) = k - 1
        n == Cardinality(at)
    IN  [k \in 1..(n + 1) |->
            SubSeq(s, IF k = 1 THEN 1 ELSE nth(k - 1) + 1,
                      IF k = n + 1 THEN Len(s) ELSE nth(k) - 1)]

StartsWith(s, p) == Len(s) >= Len(p) /\ SubSeq(s, 1, Len(p)) = p

\* String.prototype.substring(from, to), 0-based, to exclusive
Substring(s, from, to) ==
    LET hi == IF to > Len(s) THEN Len(s) ELSE to
    IN  IF from >= hi THEN <<>> ELSE SubSeq(s, from + 1, hi)

SubstringFrom(s, from) == Substring(s, from, Len(s))

\* s.includes(p)
Includes(s, p) ==
    \E i \in 1..(Len(s) - Len(p) + 1) : SubSeq(s, i, i + Len(p) - 1) = p

\* Number(s) for the strings the program passes: surrounding whitespace is
\* dropped, the empty string is 0, decimal digits are their value, and
\* anything else is NaN.
RECURSIVE DigitsValue(_, _)
DigitsValue(s, acc) ==
    IF s = <<>> THEN acc ELSE DigitsValue(Tail(s), acc * 10 + DigitValue(Head(s)))

Number(s) ==
    LET t == Trim(s)
    IN  IF t = <<>> THEN 0
        ELSE IF \A i \in 1..Len(t) : t[i] \in Digits THEN DigitsValue(t, 0)
        ELSE NaN

\* String(n) for a non-negative integer
RECURSIVE NatToString(_)
NatToString(n) ==
    IF n < 10 THEN <<DigitChars[n + 1]>>
    ELSE Append(NatToString(n \div 10), DigitChars[(n % 10) + 1])

\* s.padStart(width, '0')
RECURSIVE PadStart(_, _)
PadStart(s, width) == IF Len(s) >= width THEN s ELSE PadStart(<<"0">> \o s, width)

\* array destructuring [a, b] = parts: a missing element is undefined,
\* and Number(undefined) is NaN
NumberAt(parts, i) == IF i <= Len(parts) THEN Number(parts[i]) ELSE NaN

(***************************************************************************)
(* utils/dateTime.ts                                                       *)
(***************************************************************************)
StepMinutes == 60

HHMM(totalMinutes) ==
    PadStart(NatToString(totalMinutes \div 60), 2) \o <<":">>
        \o PadStart(NatToString(totalMinutes % 60), 2)

RECURSIVE SlotLoop(_, _, _, _)
SlotLoop(time, durationMinutes, closingMinutes, slots) ==
    IF JsLe(JsAdd(time, durationMinutes), closingMinutes)
    THEN SlotLoop(time + StepMinutes, durationMinutes, closingMinutes,
                  Append(slots, HHMM(time)))
    ELSE slots

\* the loop with the duration left out of its condition
generateTimeSlots_startOnly(openingTime, closingTime, hours) ==
    LET open == Split(openingTime, ":")
        close == Split(closingTime, ":")
        openingMinutes == JsAdd(JsMul(NumberAt(open, 1), 60), NumberAt(open, 2))
        closingMinutes == JsAdd(JsMul(NumberAt(close, 1), 60), NumberAt(close, 2))
    IN  SlotLoop(openingMinutes, 0, closingMinutes, <<>>)

\* the loop with < in place of <=
RECURSIVE SlotLoopStrict(_, _, _, _)
SlotLoopStrict(time, durationMinutes, closingMinutes, slots) ==
    IF JsLt(JsAdd(time, durationMinutes), closingMinutes)
    THEN SlotLoopStrict(time + StepMinutes, durationMinutes, closingMinutes,
                        Append(slots, HHMM(time)))
    ELSE slots

generateTimeSlots_strict(openingTime, closingTime, hours) ==
    LET open == Split(openingTime, ":")
        close == Split(closingTime, ":")
        openingMinutes == JsAdd(JsMul(NumberAt(open, 1), 60), NumberAt(open, 2))
        closingMinutes == JsAdd(JsMul(NumberAt(close, 1), 60), NumberAt(close, 2))
    IN  SlotLoopStrict(openingMinutes, hours * 30, closingMinutes, <<>>)

generateTimeSlots(openingTime, closingTime, hours) ==
    LET open == Split(openingTime, ":")
        close == Split(closingTime, ":")
        openingMinutes == JsAdd(JsMul(NumberAt(open, 1), 60), NumberAt(open, 2))
        closingMinutes == JsAdd(JsMul(NumberAt(close, 1), 60), NumberAt(close, 2))
        durationMinutes == hours * 30
    IN  SlotLoop(openingMinutes, durationMinutes, closingMinutes, <<>>)

(***************************************************************************)
(* Slot generator: every call of generateTimeSlots on well-formed times    *)
(***************************************************************************)
FirstHour == 8
LastHour == 20
MaxDurationHalves == 6

ClockTimes ==
    {HHMM(h * 60 + m) : h \in FirstHour..LastHour, m \in {0, 30}}

SlotCalls ==
    [fn : {"generateTimeSlots"}, openingTime : ClockTimes,
     closingTime : ClockTimes, durationHours : 1..MaxDurationHalves]

InitSlots == call \in SlotCalls /\ ret = Pending /\ FormIdle /\ SummaryIdle /\ DraftIdle /\ LedgerIdle

CallGenerateTimeSlots ==
    /\ call.fn = "generateTimeSlots"
    /\ ~ret.done
    /\ ret' = Returned(generateTimeSlots(call.openingTime, call.closingTime,
                                         call.durationHours))
    /\ UNCHANGED <<call, formVars, summaryVars, draftVars>>

NextSlots == CallGenerateTimeSlots

SpecSlots == InitSlots /\ [][NextSlots]_vars

\* minutes since midnight of an HH:MM string, read digit by digit
MinutesOf(t) ==
    (DigitValue(t[1]) * 10 + DigitValue(t[2])) * 60
        + DigitValue(t[4]) * 10 + DigitValue(t[5])

SlotsReturned == call.fn = "generateTimeSlots" /\ ret.done
slots == ret.value

\* C1: for opening < closing and a duration that is a positive multiple of
\* 0.5 h, every returned start is >= opening, start + duration <= closing,
\* and consecutive starts are exactly 60 minutes apart (strictly increasing).
C1_SlotsWithinHours ==
    (SlotsReturned /\ MinutesOf(call.openingTime) < MinutesOf(call.closingTime)) =>
        /\ \A i \in 1..Len(slots) :
              /\ Len(slots[i]) = 5 /\ slots[i][3] = ":"
              /\ MinutesOf(slots[i]) >= MinutesOf(call.openingTime)
              /\ MinutesOf(slots[i]) + call.durationHours * 30
                     <= MinutesOf(call.closingTime)
        /\ \A i \in 1..(Len(slots) - 1) :
              MinutesOf(slots[i + 1]) = MinutesOf(slots[i]) + 60

C1_Witness ==
    /\ SlotsReturned
    /\ MinutesOf(call.openingTime) < MinutesOf(call.closingTime)
    /\ Len(slots) >= 3
    /\ call.durationHours = 3
    /\ MinutesOf(slots[Len(slots)]) + 90 < MinutesOf(call.closingTime)

\* the starts opening + 60k that fit before closing
FittingStarts(openingTime, closingTime, hours) ==
    {MinutesOf(openingTime) + 60 * k : k \in
        {j \in 0..24 : MinutesOf(openingTime) + 60 * j + hours * 30
                           <= MinutesOf(closingTime)}}

\* C2: the returned starts are exactly opening + 60k with
\* opening + 60k + duration <= closing, none omitted and none repeated;
\* 09:00-20:00 with 2 h gives 09:00..18:00; closing <= opening gives the
\* empty list.
C2_SlotsExact ==
    SlotsReturned =>
        /\ {MinutesOf(slots[i]) : i \in 1..Len(slots)}
              = FittingStarts(call.openingTime, call.closingTime, call.durationHours)
        /\ Len(slots)
              = Cardinality(FittingStarts(call.openingTime, call.closingTime,
                                          call.durationHours))
        /\ (/\ call.openingTime = <<"0", "9", ":", "0", "0">>
            /\ call.closingTime = <<"2", "0", ":", "0", "0">>
            /\ call.durationHours = 4)
              => slots = [i \in 1..10 |-> HHMM((8 + i) * 60)]
        /\ MinutesOf(call.closingTime) <= MinutesOf(call.openingTime) => slots = <<>>

C2_Witness ==
    /\ SlotsReturned
    /\ call.openingTime = <<"0", "9", ":", "0", "0">>
    /\ call.closingTime = <<"2", "0", ":", "0", "0">>
    /\ call.durationHours = 4
    /\ Len(slots) = 10
    /\ slots[10] = <<"1", "8", ":", "0", "0">>

(***************************************************************************)
(* pages/BookingSummary.tsx: calculateTotals (both deposit policies)       *)
(***************************************************************************)
MoneyScale == 2000

\* the leading run of decimal digits of s
RECURSIVE DigitPrefix(_)
DigitPrefix(s) ==
    IF s # <<>> /\ Head(s) \in Digits THEN <<Head(s)>> \o DigitPrefix(Tail(s)) ELSE <<>>

\* a fraction .d1 d2 d3 in money units (digits after the third are below
\* the unit and dropped)
FractionValue(f) ==
    (IF Len(f) >= 1 THEN DigitValue(f[1]) * (MoneyScale \div 10) ELSE 0)
  + (IF Len(f) >= 2 THEN DigitValue(f[2]) * (MoneyScale \div 100) ELSE 0)
  + (IF Len(f) >= 3 THEN DigitValue(f[3]) * (MoneyScale \div 1000) ELSE 0)

\* parseFloat(s): leading whitespace is skipped, the longest prefix
\* digits[.digits] is converted and the rest ignored; NaN when no digit
\* starts the number.
parseFloat(s) ==
    LET t == TrimStart(s)
        whole == DigitPrefix(t)
        rest == SubSeq(t, Len(whole) + 1, Len(t))
        frac == IF rest # <<>> /\ Head(rest) = "." THEN DigitPrefix(Tail(rest)) ELSE <<>>
    IN  IF whole = <<>> /\ frac = <<>> THEN NaN
        ELSE DigitsValue(whole, 0) * MoneyScale + FractionValue(frac)

\* Array.prototype.reduce((sum, x) => sum + f(x), 0) for the two sums
RECURSIVE ReduceServices(_, _)
ReduceServices(sum, services) ==
    IF services = <<>> THEN sum
    ELSE ReduceServices(JsAdd(sum, parseFloat(Head(services).price)), Tail(services))

RECURSIVE ReduceCart(_, _)
ReduceCart(sum, cart) ==
    IF cart = <<>> THEN sum
    ELSE ReduceCart(JsAdd(sum, JsMul(parseFloat(Head(cart).item.price),
                                     Head(cart).quantity)),
                    Tail(cart))

\* the cart sum without the quantity
RECURSIVE ReduceCartUnit(_, _)
ReduceCartUnit(sum, cart) ==
    IF cart = <<>> THEN sum
    ELSE ReduceCartUnit(JsAdd(sum, parseFloat(Head(cart).item.price)), Tail(cart))

NoLocation == [id |-> "none"]

\* selectedLocation?.hourlyRate || '0'
HourlyRateOrZero(location) ==
    IF location.id = "none" \/ location.hourlyRate = <<>>
    THEN <<"0">>
    ELSE location.hourlyRate

\* rate * durationHours, durationHours being counted in half hours
TimesHours(rate, hours) ==
    IF IsNum(rate) THEN (rate * hours) \div 2 ELSE NaN

\* amount * 0.3 and amount * 0.5
TimesThreeTenths(amount) == IF IsNum(amount) THEN (amount * 3) \div 10 ELSE NaN
TimesHalf(amount) == IF IsNum(amount) THEN amount \div 2 ELSE NaN

\* Math.min(a, b)
MathMin(a, b) == IF IsNum(a) /\ IsNum(b) THEN (IF a < b THEN a ELSE b) ELSE NaN

\* BookingSummary.tsx with whole hours only: Math.floor of the duration
calculateTotals_wholeHours(location, hours, services, cart) ==
    LET baseCost == JsMul(parseFloat(HourlyRateOrZero(location)),
                          hours \div 2)
        servicesCost == ReduceServices(0, services)
        clothingCost == ReduceCart(0, cart)
        totalAmount == JsAdd(JsAdd(JsAdd(baseCost, servicesCost), clothingCost), 0)
    IN  [baseCost |-> baseCost, servicesCost |-> servicesCost,
         clothingCost |-> clothingCost, totalAmount |-> totalAmount,
         depositAmount |-> TimesThreeTenths(totalAmount)]

\* BookingSummary.tsx: deposit = 30% of the total
calculateTotals(location, hours, services, cart) ==
    LET baseCost == TimesHours(parseFloat(HourlyRateOrZero(location)),
                               hours)
        servicesCost == ReduceServices(0, services)
        clothingCost == ReduceCart(0, cart)
        propsCost == 0
        totalAmount == JsAdd(JsAdd(JsAdd(baseCost, servicesCost), clothingCost),
                             propsCost)
        depositAmount == TimesThreeTenths(totalAmount)
    IN  [baseCost |-> baseCost, servicesCost |-> servicesCost,
         clothingCost |-> clothingCost, totalAmount |-> totalAmount,
         depositAmount |-> depositAmount]

\* the later BookingSummary with the deposit fixed at one hour's rate
calculateTotalsCapped_flat(location, hours, services, cart) ==
    LET baseCost == TimesHours(parseFloat(HourlyRateOrZero(location)),
                               hours)
        servicesCost == ReduceServices(0, services)
        clothingCost == ReduceCart(0, cart)
        totalAmount == JsAdd(JsAdd(JsAdd(baseCost, servicesCost), clothingCost), 0)
    IN  [baseCost |-> baseCost, servicesCost |-> servicesCost,
         clothingCost |-> clothingCost, totalAmount |-> totalAmount,
         depositAmount |-> parseFloat(HourlyRateOrZero(location))]

\* the later BookingSummary: deposit = min(total * 0.5, hourlyRate)
calculateTotalsCapped(location, hours, services, cart) ==
    LET baseCost == TimesHours(parseFloat(HourlyRateOrZero(location)),
                               hours)
        servicesCost == ReduceServices(0, services)
        clothingCost == ReduceCart(0, cart)
        propsCost == 0
        totalAmount == JsAdd(JsAdd(JsAdd(baseCost, servicesCost), clothingCost),
                             propsCost)
        hourlyRate == parseFloat(HourlyRateOrZero(location))
        halfTotal == TimesHalf(totalAmount)
        maxDeposit == hourlyRate
        depositAmount == MathMin(halfTotal, maxDeposit)
    IN  [baseCost |-> baseCost, servicesCost |-> servicesCost,
         clothingCost |-> clothingCost, totalAmount |-> totalAmount,
         depositAmount |-> depositAmount]

(***************************************************************************)
(* Pricing: every call of calculateTotals on a bounded booking draft       *)
(***************************************************************************)
MaxServices == 2
MaxCartLines == 2
MaxQuantity == 2

PricingLocations ==
    { [id |-> "loc1", hourlyRate |-> <<"5", "0", "0", ".", "0", "0">>],
      [id |-> "loc2", hourlyRate |-> <<"3", "5", "0", ".", "5", "0">>],
      NoLocation }

ServiceCatalog ==
    { [id |-> "s1", price |-> <<"2", "0", "0", ".", "0", "0">>],
      [id |-> "s2", price |-> <<"9", "9", ".", "9", "0">>],
      [id |-> "s3", price |-> <<"0", ".", "0", "0">>] }

ClothingCatalog ==
    { [id |-> "c1", price |-> <<"1", "5", "0", ".", "0", "0">>],
      [id |-> "c2", price |-> <<"7", "5", ".", "2", "5">>] }

SeqsUpTo(S, n) == UNION {[1..k -> S] : k \in 0..n}

\* the selections of at most n services, each selected once
ServiceSelections(n) ==
    {q \in SeqsUpTo(ServiceCatalog, n) :
        \A i, j \in 1..Len(q) : i # j => q[i].id # q[j].id}

CartLines == [item : ClothingCatalog, quantity : 1..MaxQuantity]

OneLinePerItem(cart) ==
    \A i, j \in 1..Len(cart) : i # j => cart[i].item.id # cart[j].item.id

\* the carts of at most n lines, one line per item
Carts(n) == {q \in SeqsUpTo(CartLines, n) : OneLinePerItem(q)}

\* BookingSettings.depositPercentage as the studio may configure it
DepositPercentages ==
    { <<"3", "0", ".", "0", "0">>, <<"5", "0", ".", "0", "0">> }

PricingCalls ==
    [fn : {"calculateTotals", "calculateTotalsCapped"},
     settings : [depositPercentage : DepositPercentages],
     selectedLocation : PricingLocations,
     durationHours : 1..MaxDurationHalves,
     selectedServices : ServiceSelections(MaxServices),
     clothingCart : Carts(MaxCartLines)]

InitPricing == call \in PricingCalls /\ ret = Pending /\ FormIdle /\ SummaryIdle /\ DraftIdle /\ LedgerIdle

CallCalculateTotals ==
    /\ call.fn = "calculateTotals"
    /\ ~ret.done
    /\ ret' = Returned(calculateTotals(call.selectedLocation, call.durationHours,
                                       call.selectedServices, call.clothingCart))
    /\ UNCHANGED <<call, formVars, summaryVars, draftVars>>

CallCalculateTotalsCapped ==
    /\ call.fn = "calculateTotalsCapped"
    /\ ~ret.done
    /\ ret' = Returned(calculateTotalsCapped(call.selectedLocation, call.durationHours,
                                             call.selectedServices, call.clothingCart))
    /\ UNCHANGED <<call, formVars, summaryVars, draftVars>>

NextPricing == CallCalculateTotals \/ CallCalculateTotalsCapped

SpecPricing == InitPricing /\ [][NextPricing]_vars

\* a price written with two decimals, read digit by digit
RECURSIVE DecimalOf(_, _)
DecimalOf(s, acc) ==
    IF s = <<>> THEN acc
    ELSE IF Head(s) = "." THEN DecimalOf(Tail(s), acc)
    ELSE DecimalOf(Tail(s), acc * 10 + DigitValue(Head(s)))

Hundredths(price) == DecimalOf(price, 0)

RECURSIVE SumOver(_, _)
SumOver(f, S) ==
    IF S = {} THEN 0
    ELSE LET i == CHOOSE j \in S : TRUE IN f[i] + SumOver(f, S \ {i})

TotalsReturned == call.fn \in {"calculateTotals", "calculateTotalsCapped"} /\ ret.done

\* the total in hundredths of a hryvnia, times 2 (a half hour of an odd
\* rate is half a hundredth)
ExpectedTwiceTotal(c) ==
    (IF c.selectedLocation.id = "none" THEN 0
     ELSE Hundredths(c.selectedLocation.hourlyRate) * c.durationHours)
  + 2 * SumOver([i \in 1..Len(c.selectedServices) |->
                    Hundredths(c.selectedServices[i].price)],
                1..Len(c.selectedServices))
  + 2 * SumOver([i \in 1..Len(c.clothingCart) |->
                    Hundredths(c.clothingCart[i].item.price)
                        * c.clothingCart[i].quantity],
                1..Len(c.clothingCart))

\* C3: totalAmount = hourlyRate * durationHours + sum of the selected
\* services' prices + sum over cart lines of price * quantity, for every
\* duration that is a multiple of 0.5; 500.00 * 2.5 + 200.00 + 150.00 * 2
\* is 1750.00.
C3_TotalFormula ==
    TotalsReturned =>
        /\ ret.value.totalAmount * 200 = ExpectedTwiceTotal(call) * MoneyScale
        /\ (/\ call.selectedLocation.id = "loc1"
            /\ call.durationHours = 5
            /\ Len(call.selectedServices) = 1
            /\ call.selectedServices[1].id = "s1"
            /\ Len(call.clothingCart) = 1
            /\ call.clothingCart[1].item.id = "c1"
            /\ call.clothingCart[1].quantity = 2)
              => ret.value.totalAmount = 1750 * MoneyScale

C3_Witness ==
    /\ TotalsReturned
    /\ call.selectedLocation.id = "loc1"
    /\ call.durationHours = 5
    /\ Len(call.selectedServices) = 1
    /\ call.selectedServices[1].id = "s1"
    /\ Len(call.clothingCart) = 1
    /\ call.clothingCart[1].item.id = "c1"
    /\ call.clothingCart[1].quantity = 2
    /\ ret.value.totalAmount = 1750 * MoneyScale

(***************************************************************************)
(* Characters: an ASCII character is itself; a Cyrillic letter is written  *)
(* as its code point ("U+0456" is one character).                          *)
(***************************************************************************)
LowerChars ==
    <<"a", "b", "c", "d", "e", "f", "g", "h", "i", "j", "k", "l", "m",
      "n", "o", "p", "q", "r", "s", "t", "u", "v", "w", "x", "y", "z">>
UpperChars ==
    <<"A", "B", "C", "D", "E", "F", "G", "H", "I", "J", "K", "L", "M",
      "N", "O", "P", "Q", "R", "S", "T", "U", "V", "W", "X", "Y", "Z">>

LatinLetters == {LowerChars[i] : i \in 1..26} \cup {UpperChars[i] : i \in 1..26}
AlphaNumeric == LatinLetters \cup Digits

\* the ranges U+0410..U+042F and U+0430..U+044F of the name pattern
CyrillicRange ==
    {"U+0410", "U+0411", "U+0412", "U+0413", "U+0414", "U+0415", "U+0416", "U+0417",
      "U+0418", "U+0419", "U+041A", "U+041B", "U+041C", "U+041D", "U+041E", "U+041F",
      "U+0420", "U+0421", "U+0422", "U+0423", "U+0424", "U+0425", "U+0426", "U+0427",
      "U+0428", "U+0429", "U+042A", "U+042B", "U+042C", "U+042D", "U+042E", "U+042F",
      "U+0430", "U+0431", "U+0432", "U+0433", "U+0434", "U+0435", "U+0436", "U+0437",
      "U+0438", "U+0439", "U+043A", "U+043B", "U+043C", "U+043D", "U+043E", "U+043F",
      "U+0440", "U+0441", "U+0442", "U+0443", "U+0444", "U+0445", "U+0446", "U+0447",
      "U+0448", "U+0449", "U+044A", "U+044B", "U+044C", "U+044D", "U+044E", "U+044F"}

\* the Ukrainian letters the name pattern lists one by one
UkrainianExtra ==
    {"U+0456", "U+0406", "U+0457", "U+0407", "U+0454", "U+0404", "U+0491", "U+0490"}

\* String.prototype.toLowerCase on the characters above
LowerOf(c) ==
    IF \E i \in 1..26 : UpperChars[i] = c
    THEN LowerChars[CHOOSE i \in 1..26 : UpperChars[i] = c]
    ELSE c

ToLowerCase(s) == [i \in 1..Len(s) |-> LowerOf(s[i])]

\* s.replace(/[...]/g, '') for a character class
RECURSIVE RemoveChars(_, _)
RemoveChars(s, class) ==
    IF s = <<>> THEN <<>>
    ELSE IF Head(s) \in class THEN RemoveChars(Tail(s), class)
    ELSE <<Head(s)>> \o RemoveChars(Tail(s), class)

AllIn(s, class) == \A i \in 1..Len(s) : s[i] \in class

(***************************************************************************)
(* utils/validation.ts                                                     *)
(***************************************************************************)
Result(valid, message) == [valid |-> valid, message |-> message]

PhoneSeparators == WhitespaceChars \cup {"-", "(", ")"}

\* /^(\+?380|0)\d{9}$/
PhoneRegexTest(s) ==
    \E prefix \in {<<"+", "3", "8", "0">>, <<"3", "8", "0">>, <<"0">>} :
        /\ StartsWith(s, prefix)
        /\ Len(s) = Len(prefix) + 9
        /\ AllIn(SubstringFrom(s, Len(prefix)), Digits)

validOperatorCodes ==
    { <<"3", "9">>, <<"5", "0">>, <<"6", "3">>, <<"6", "6">>, <<"6", "7">>,
      <<"6", "8">>, <<"7", "3">>, <<"9", "1">>, <<"9", "2">>, <<"9", "3">>,
      <<"9", "4">>, <<"9", "5">>, <<"9", "6">>, <<"9", "7">>, <<"9", "8">>,
      <<"9", "9">> }

\* validatePhoneNumber without the operator-code test
validatePhoneNumber_anyCode(phone) ==
    IF phone = <<>> \/ Len(Trim(phone)) = 0
    THEN Result(FALSE, "phone: required")
    ELSE IF ~PhoneRegexTest(RemoveChars(phone, PhoneSeparators))
    THEN Result(FALSE, "phone: format +380XXXXXXXXX or 0XXXXXXXXX")
    ELSE Result(TRUE, "")

validatePhoneNumber(phone) ==
    IF phone = <<>> \/ Len(Trim(phone)) = 0
    THEN Result(FALSE, "phone: required")
    ELSE LET cleanPhone == RemoveChars(phone, PhoneSeparators)
             operatorCode ==
                 IF StartsWith(cleanPhone, <<"+", "3", "8", "0">>)
                 THEN Substring(cleanPhone, 4, 6)
                 ELSE IF StartsWith(cleanPhone, <<"3", "8", "0">>)
                 THEN Substring(cleanPhone, 3, 5)
                 ELSE Substring(cleanPhone, 1, 3)
         IN  IF ~PhoneRegexTest(cleanPhone)
             THEN Result(FALSE, "phone: format +380XXXXXXXXX or 0XXXXXXXXX")
             ELSE IF operatorCode \notin validOperatorCodes
             THEN Result(FALSE, "phone: operator code")
             ELSE Result(TRUE, "")

\* normalizePhoneNumber that keeps the separators
normalizePhoneNumber_unclean(phone) ==
    IF StartsWith(phone, <<"+", "3", "8", "0">>) THEN phone
    ELSE IF StartsWith(phone, <<"3", "8", "0">>) THEN <<"+">> \o phone
    ELSE IF StartsWith(phone, <<"0">>) THEN <<"+", "3", "8">> \o phone
    ELSE phone

\* normalizePhoneNumber that puts +380 before a number written with 0
normalizePhoneNumber_trunk(phone) ==
    LET cleanPhone == RemoveChars(phone, PhoneSeparators)
    IN  IF StartsWith(cleanPhone, <<"+", "3", "8", "0">>) THEN cleanPhone
        ELSE IF StartsWith(cleanPhone, <<"3", "8", "0">>) THEN <<"+">> \o cleanPhone
        ELSE IF StartsWith(cleanPhone, <<"0">>)
        THEN <<"+", "3", "8", "0">> \o cleanPhone
        ELSE cleanPhone

normalizePhoneNumber(phone) ==
    LET cleanPhone == RemoveChars(phone, PhoneSeparators)
    IN  IF StartsWith(cleanPhone, <<"+", "3", "8", "0">>) THEN cleanPhone
        ELSE IF StartsWith(cleanPhone, <<"3", "8", "0">>) THEN <<"+">> \o cleanPhone
        ELSE IF StartsWith(cleanPhone, <<"0">>) THEN <<"+", "3", "8">> \o cleanPhone
        ELSE cleanPhone

\* the local-part class of emailRegex (U+0060 is the grave accent)
EmailLocalChars ==
    AlphaNumeric \cup {".", "!", "#", "$", "%", "&", "'", "*", "+", "/", "=",
                       "?", "^", "_", "U+0060", "{", "|", "}", "~", "-"}

\* [a-zA-Z0-9](?:[a-zA-Z0-9-]{0,61}[a-zA-Z0-9])?
DomainLabelTest(l) ==
    /\ Len(l) >= 1
    /\ Len(l) <= 63
    /\ l[1] \in AlphaNumeric
    /\ l[Len(l)] \in AlphaNumeric
    /\ AllIn(l, AlphaNumeric \cup {"-"})

\* /^[local]+@label(?:\.label)*$/
EmailRegexTest(email) ==
    LET parts == Split(email, "@")
    IN  /\ Len(parts) = 2
        /\ parts[1] # <<>>
        /\ AllIn(parts[1], EmailLocalChars)
        /\ LET labels == Split(parts[2], ".")
           IN  \A i \in 1..Len(labels) : DomainLabelTest(labels[i])

\* validateEmail without the test for consecutive dots
validateEmail_dots(email) ==
    IF email = <<>> \/ Len(Trim(email)) = 0
    THEN Result(FALSE, "email: required")
    ELSE IF ~EmailRegexTest(email)
    THEN Result(FALSE, "email: enter a correct email")
    ELSE IF Len(email) > 254
    THEN Result(FALSE, "email: too long")
    ELSE LET localPart == Split(email, "@")[1]
             domain == Split(email, "@")[2]
         IN  IF Len(localPart) > 64
             THEN Result(FALSE, "email: too long")
             ELSE IF ~Includes(domain, <<".">>)
             THEN Result(FALSE, "email: domain missing")
             ELSE Result(TRUE, "")

validateEmail(email) ==
    IF email = <<>> \/ Len(Trim(email)) = 0
    THEN Result(FALSE, "email: required")
    ELSE IF ~EmailRegexTest(email)
    THEN Result(FALSE, "email: enter a correct email")
    ELSE IF Len(email) > 254
    THEN Result(FALSE, "email: too long")
    ELSE LET localPart == Split(email, "@")[1]
             domain == Split(email, "@")[2]
         IN  IF Len(localPart) > 64
             THEN Result(FALSE, "email: too long")
             ELSE IF ~Includes(domain, <<".">>)
             THEN Result(FALSE, "email: domain missing")
             ELSE IF Includes(email, <<".", ".">>)
             THEN Result(FALSE, "email: inadmissible characters")
             ELSE Result(TRUE, "")

\* the character class of nameRegex: Latin and Cyrillic letters, the four
\* Ukrainian letters in both cases, apostrophe, whitespace and hyphen
NameChars ==
    LatinLetters \cup CyrillicRange \cup UkrainianExtra \cup WhitespaceChars
        \cup {"'", "-"}

validateName(name, fieldName) ==
    IF name = <<>> \/ Len(Trim(name)) = 0
    THEN Result(FALSE, fieldName \o ": required")
    ELSE IF Len(Trim(name)) < 2
    THEN Result(FALSE, fieldName \o ": minimum 2 characters")
    ELSE IF Len(Trim(name)) > 50
    THEN Result(FALSE, fieldName \o ": too long (maximum 50 characters)")
    ELSE IF ~(name # <<>> /\ AllIn(name, NameChars))
    THEN Result(FALSE, fieldName \o ": letters, spaces and hyphens only")
    ELSE Result(TRUE, "")

validateNotes(notes) ==
    IF Len(Trim(notes)) > 500
    THEN Result(FALSE, "notes: too long (maximum 500 characters)")
    ELSE Result(TRUE, "")

undefined == [undefined |-> TRUE]
IsUndefined(x) == "undefined" \in DOMAIN x

\* the entries of errors / normalizedData: field name -> value, for the
\* fields that were assigned
Entries(assigned, values) == [f \in assigned |-> values[f]]

BookingFormFields ==
    {"firstName", "lastName", "phone", "email", "date", "time", "notes"}

\* the message validateBookingForm records for each field that fails
\* ("" when the field passes)
FormMessages(data) ==
    [f \in BookingFormFields |->
        CASE f = "firstName" -> validateName(data.firstName, "firstName").message
          [] f = "lastName" -> validateName(data.lastName, "lastName").message
          [] f = "phone" -> validatePhoneNumber(data.phone).message
          [] f = "email" -> validateEmail(data.email).message
          [] f = "date" -> IF data.bookingDate = <<>> THEN "date: choose a date" ELSE ""
          [] f = "time" -> IF data.bookingTime = <<>> THEN "time: choose a time" ELSE ""
          [] f = "notes" -> IF data.notes # <<>>
                            THEN validateNotes(data.notes).message
                            ELSE ""]

FormFailed(data) ==
    {f \in BookingFormFields :
        CASE f = "firstName" -> ~validateName(data.firstName, "firstName").valid
          [] f = "lastName" -> ~validateName(data.lastName, "lastName").valid
          [] f = "phone" -> ~validatePhoneNumber(data.phone).valid
          [] f = "email" -> ~validateEmail(data.email).valid
          [] f = "date" -> data.bookingDate = <<>>
          [] f = "time" -> data.bookingTime = <<>>
          [] f = "notes" -> data.notes # <<>> /\ ~validateNotes(data.notes).valid}

\* the value validateBookingForm stores in normalizedData for each field
FormNormalized(data) ==
    [f \in BookingFormFields |->
        CASE f = "firstName" -> Trim(data.firstName)
          [] f = "lastName" -> Trim(data.lastName)
          [] f = "phone" -> normalizePhoneNumber(data.phone)
          [] f = "email" -> ToLowerCase(Trim(data.email))
          [] f = "date" -> data.bookingDate
          [] f = "time" -> data.bookingTime
          [] f = "notes" -> Trim(data.notes)]

\* the fields whose else-branch stores a normalized value: every field that
\* passed, notes only when it is not empty
FormStored(data) ==
    {f \in BookingFormFields \ FormFailed(data) : f = "notes" => data.notes # <<>>}

\* validateBookingForm that hands back normalizedData whatever the errors
validateBookingForm_alwaysData(data) ==
    LET errors == Entries(FormFailed(data), FormMessages(data))
        normalizedData == Entries(FormStored(data), FormNormalized(data))
    IN  [valid |-> Cardinality(DOMAIN errors) = 0,
         errors |-> errors,
         normalizedData |-> normalizedData]

validateBookingForm(data) ==
    LET errors == Entries(FormFailed(data), FormMessages(data))
        normalizedData == Entries(FormStored(data), FormNormalized(data))
    IN  [valid |-> Cardinality(DOMAIN errors) = 0,
         errors |-> errors,
         normalizedData |->
             IF Cardinality(DOMAIN errors) = 0 THEN normalizedData ELSE undefined]

(***************************************************************************)
(* Phone: validatePhoneNumber, then normalizePhoneNumber, on raw input     *)
(***************************************************************************)
Chars(n, c) == [i \in 1..n |-> c]

PhonePrefixes ==
    { <<"+", "3", "8", "0">>, <<"3", "8", "0">>, <<"0">>, <<"+", "3", "8">>,
      <<"8", "0">>, <<>> }

PhoneOperatorCodes ==
    { <<"6", "7">>, <<"9", "9">>, <<"3", "9">>, <<"1", "2">>, <<"3", "8">>,
      <<"0", "0">> }

PhoneTails ==
    { <<"1", "2", "3", "4", "5", "6", "7">>,
      <<"1", "2", "3", "4", "5", "6">>,
      <<"0", "6", "7", "1", "2", "3", "4", "5">>,
      <<"1", "2", "3", "-", "4", "5", "-", "6", "7">>,
      <<"1", "2", "3", "4", "5", "6", "x">>,
      <<"3", "4", "5", "6", "7", "8", "9">> }

RawPhones ==
    {Join(<<lead, prefix, open, code, close, tail, trail>>) :
        lead \in {<<>>, <<" ">>},
        prefix \in PhonePrefixes,
        open \in {<<>>, <<"(">>, <<" ">>},
        code \in PhoneOperatorCodes,
        close \in {<<>>, <<")", " ">>},
        tail \in PhoneTails,
        trail \in {<<>>, <<" ">>}}
    \cup {<<>>, <<" ">>}

InitPhone ==
    /\ call \in [fn : {"validatePhoneNumber"}, phone : RawPhones]
    /\ ret = Pending
    /\ FormIdle /\ SummaryIdle /\ DraftIdle /\ LedgerIdle

CallValidatePhoneNumber ==
    /\ call.fn = "validatePhoneNumber"
    /\ ~ret.done
    /\ ret' = Returned(validatePhoneNumber(call.phone))
    /\ UNCHANGED <<call, formVars, summaryVars, draftVars>>

\* the caller's next step: normalizePhoneNumber on the same raw string
CallNormalizePhoneNumber ==
    /\ call.fn = "validatePhoneNumber"
    /\ ret.done
    /\ call' = [fn |-> "normalizePhoneNumber", phone |-> call.phone,
                accepted |-> ret.value.valid]
    /\ ret' = Returned(normalizePhoneNumber(call.phone))
    /\ UNCHANGED <<formVars, summaryVars, draftVars>>

\* normalizePhoneNumber on a number that is already normalized, as
\* validateBookingForm does with the contactInfo BookingForm has stored
CallNormalizeAgain ==
    /\ call.fn = "normalizePhoneNumber"
    /\ ret.done
    /\ call' = [fn |-> "normalizePhoneNumber again", phone |-> ret.value,
                raw |-> call.phone, accepted |-> call.accepted]
    /\ ret' = Returned(normalizePhoneNumber(ret.value))
    /\ UNCHANGED <<formVars, summaryVars, draftVars>>

NextPhone == CallValidatePhoneNumber \/ CallNormalizePhoneNumber \/ CallNormalizeAgain

SpecPhone == InitPhone /\ [][NextPhone]_vars

WhitelistedCodes == {39, 50, 63, 66, 67, 68, 73, 91, 92, 93, 94, 95, 96, 97, 98, 99}

\* +380 followed by exactly 9 digits, the first two a whitelisted code
Canonical(phone) ==
    /\ Len(phone) = 13
    /\ phone[1] = "+" /\ phone[2] = "3" /\ phone[3] = "8" /\ phone[4] = "0"
    /\ \A i \in 5..13 : phone[i] \in Digits
    /\ DigitValue(phone[5]) * 10 + DigitValue(phone[6]) \in WhitelistedCodes

NormalizedAccepted ==
    call.fn = "normalizePhoneNumber" /\ ret.done /\ call.accepted

\* C4: every raw phone string that validatePhoneNumber accepts is
\* normalized to +380 followed by exactly 9 digits whose first two digits
\* are a whitelisted operator code.
C4_NormalizedCanonical == NormalizedAccepted => Canonical(ret.value)

C4_Witness ==
    /\ NormalizedAccepted
    /\ StartsWith(call.phone, <<" ", "0", "(">>)
    /\ ret.value = <<"+", "3", "8", "0", "6", "7", "1", "2", "3", "4", "5", "6", "7">>

(***************************************************************************)
(* Form: every call of validateBookingForm on a bounded set of forms       *)
(***************************************************************************)
FormNames ==
    { <<>>, <<" ">>, <<"I">>, <<"I", "v", "a", "n">>, <<" ", "I", "v", "a", "n", " ">>,
      <<"I", "v", "4", "n">>, <<"U+0406", "U+0432", "U+0430", "U+043D">> }

FormLastNames == { <<>>, <<"O", "'", "N", "e", "i", "l">>, Chars(51, "a") }

FormPhones ==
    { <<>>, <<"0", "9", "9", "1", "2", "3", "4", "5", "6", "7">>,
      <<"0", "1", "2", "3", "4", "5", "6", "7", "8", "9">>,
      <<"+", "3", "8", "0", " ", "(", "6", "7", ")", " ", "1", "2", "3", "4", "5", "6", "7">> }

FormEmails ==
    { <<>>,
      <<"i", "v", "a", "n", "@", "e", "x", "a", "m", "p", "l", "e", ".", "c", "o", "m">>,
      <<"I", "v", "a", "n", "@", "E", "x", ".", "U", "A">>,
      <<"a", ".", ".", "b", "@", "e", "x", ".", "c", "o", "m">>,
      <<"i", "v", "a", "n", "@", "l", "o", "c", "a", "l", "h", "o", "s", "t">>,
      <<" ", "a", "@", "b", ".", "c">> }

FormDates == { <<>>, <<"2", "0", "2", "6", "-", "1", "1", "-", "0", "5">> }
FormTimes == { <<>>, <<"1", "0", ":", "0", "0">> }

FormNotes ==
    { <<>>, <<" ", "h", "i", " ">>, Chars(500, "n"), Chars(501, "n"),
      <<" ">> \o Chars(500, "n") \o <<" ">> }

FormData ==
    [firstName : FormNames, lastName : FormLastNames, phone : FormPhones,
     email : FormEmails, bookingDate : FormDates, bookingTime : FormTimes,
     notes : FormNotes]

InitForm ==
    /\ call \in [fn : {"validateBookingForm"}, data : FormData] /\ ret = Pending
    /\ FormIdle /\ SummaryIdle /\ DraftIdle /\ LedgerIdle

CallValidateBookingForm ==
    /\ call.fn = "validateBookingForm"
    /\ ~ret.done
    /\ ret' = Returned(validateBookingForm(call.data))
    /\ UNCHANGED <<call, formVars, summaryVars, draftVars>>

NextForm == CallValidateBookingForm

SpecForm == InitForm /\ [][NextForm]_vars

FormReturned == call.fn = "validateBookingForm" /\ ret.done

AnyFieldFailed(data) ==
    \/ ~validateName(data.firstName, "firstName").valid
    \/ ~validateName(data.lastName, "lastName").valid
    \/ ~validatePhoneNumber(data.phone).valid
    \/ ~validateEmail(data.email).valid
    \/ data.bookingDate = <<>>
    \/ data.bookingTime = <<>>
    \/ (data.notes # <<>> /\ ~validateNotes(data.notes).valid)

\* C5: valid is true exactly when errors has no entry, and normalizedData
\* is defined exactly when valid is true: it is undefined as soon as one of
\* firstName, lastName, phone, email, date, time or notes failed.
C5_ValidIffNoErrors ==
    FormReturned =>
        /\ ret.value.valid = (DOMAIN ret.value.errors = {})
        /\ ret.value.valid = ~IsUndefined(ret.value.normalizedData)
        /\ AnyFieldFailed(call.data) = IsUndefined(ret.value.normalizedData)

C5_Witness ==
    /\ FormReturned
    /\ DOMAIN ret.value.errors = {"notes"}
    /\ ~ret.value.valid
    /\ IsUndefined(ret.value.normalizedData)

(***************************************************************************)
(* pages/BookingForm.tsx and its debounced, cached successor: loading the  *)
(* settings, choosing date and duration, the availability check and the    *)
(* slot grid.                                                              *)
(***************************************************************************)
LOCATION_1_UUID == "136eade1-873d-48cb-a604-2f5e54706f02"

MaxQueries == 2
MaxTicks == 1

Today == <<"2", "0", "2", "6", "-", "1", "1", "-", "0", "1">>
Tomorrow == <<"2", "0", "2", "6", "-", "1", "1", "-", "0", "2">>
BookableDates == {Today}

\* the start times the availability endpoint answers with
SlotTimes == << <<"1", "0", ":", "0", "0">>, <<"1", "1", ":", "0", "0">> >>

\* new Date(): the wall clock after tick periods of one hour, on Today
ClockAt(tick) ==
    [year |-> 2026, month |-> 11, day |-> 1, hours |-> 9 + tick, minutes |-> 30]

\* a < b on Date values; false when either is an Invalid Date
DateBefore(a, b) ==
    LET x == <<a.year, a.month, a.day, a.hours, a.minutes>>
        y == <<b.year, b.month, b.day, b.hours, b.minutes>>
    IN  /\ \A i \in 1..5 : IsNum(x[i]) /\ IsNum(y[i])
        /\ \E i \in 1..5 : x[i] < y[i] /\ \A j \in 1..(i - 1) : x[j] = y[j]

\* isTimeSlotInPast(date, time), current being the value of new Date()
isTimeSlotInPast(date, time, current) ==
    IF date = <<>> \/ time = <<>> THEN FALSE
    ELSE LET d == Split(date, "-")
             t == Split(time, ":")
             slotDateTime ==
                 [year |-> NumberAt(d, 1), month |-> NumberAt(d, 2),
                  day |-> NumberAt(d, 3), hours |-> NumberAt(t, 1),
                  minutes |-> NumberAt(t, 2)]
         IN  DateBefore(slotDateTime, current)

\* the BookingSettings the settings endpoint returns (hours in half hours)
SettingsData == [loaded |-> TRUE, minBookingHours |-> 2, maxBookingHours |-> 4]

\* the durations the visitor picks in the select: one hour and two hours
PickedDurations == {2, 4}

FormLocations ==
    { [id |-> LOCATION_1_UUID, hourlyRate |-> <<"5", "0", "0", ".", "0", "0">>],
      [id |-> "loc2", hourlyRate |-> <<"3", "5", "0", ".", "5", "0">>] }

getMinDuration == IF selectedLocation.id = LOCATION_1_UUID THEN 2 ELSE 1

\* hoursOptions (whole hours from min to max) and durationOptions (steps
\* of half an hour from getMinDuration to maxBookingHours)
DurationOptions ==
    IF debounced
    THEN {h \in getMinDuration..settings.maxBookingHours : TRUE}
    ELSE {h \in settings.minBookingHours..settings.maxBookingHours :
             (h - settings.minBookingHours) % 2 = 0}

FormattedSlots_allAvailable(dur, free) ==
    [i \in 1..Len(SlotTimes) |->
        [startTime |-> SlotTimes[i],
         endTime |-> HHMM(MinutesOf(SlotTimes[i]) + dur * 30),
         available |-> TRUE]]

\* response.slots mapped to TimeSlot values; the endpoint marks the starts
\* in free as available
FormattedSlots(dur, free) ==
    [i \in 1..Len(SlotTimes) |->
        [startTime |-> SlotTimes[i],
         endTime |-> HHMM(MinutesOf(SlotTimes[i]) + dur * 30),
         available |-> SlotTimes[i] \in free]]

SlotAvailable(list, time) ==
    \E i \in 1..Len(list) : list[i].startTime = time /\ list[i].available

\* if (bookingTime && !slots.some(...)) setBookingTime(''), bt being the
\* bookingTime the running checkAvailability closed over
ClearStale(list, closed, current) ==
    IF closed # <<>> /\ ~SlotAvailable(list, closed) THEN <<>> ELSE current

CheckKey(date, dur) == <<date, dur, selectedLocation.id>>

Query(date, dur, closed, status, list) ==
    [date |-> date, duration |-> dur, bookingTime |-> closed, status |-> status,
     slots |-> list]

\* the requests that are still awaited; a settled check matters only for
\* as long as it is the latest one
Outstanding == SelectSeq(queries, LAMBDA q : q.status = "inflight")

NoChange(bt) ==
    [queries |-> queries, checkingSlots |-> checkingSlots,
     previousCheckRef |-> previousCheckRef, availableSlots |-> availableSlots,
     apiCache |-> apiCache, bookingTime |-> bt]

\* apiCache.delete(key)
CacheDelete(key) == [k \in DOMAIN apiCache \ {key} |-> apiCache[k]]

\* checkAvailability up to its await, run by the render in which the
\* booking time is bt: the values it leaves in the state it writes.  expired
\* tells whether getCached finds the entry older than CACHE_TTL.
checkAvailability(date, dur, bt, expired) ==
    IF date = <<>> \/ dur = 0 THEN NoChange(bt)
    ELSE IF ~debounced
    THEN [NoChange(bt) EXCEPT
             !.checkingSlots = TRUE,
             !.queries = Append(Outstanding, Query(date, dur, bt, "inflight", <<>>))]
    ELSE IF previousCheckRef = CheckKey(date, dur) THEN NoChange(bt)
    ELSE IF CheckKey(date, dur) \in DOMAIN apiCache /\ ~expired
    THEN [NoChange(bt) EXCEPT
             !.previousCheckRef = CheckKey(date, dur),
             !.availableSlots = apiCache[CheckKey(date, dur)],
             !.bookingTime = ClearStale(apiCache[CheckKey(date, dur)], bt, bt),
             !.queries = Append(Outstanding, Query(date, dur, bt, "cached",
                                               apiCache[CheckKey(date, dur)]))]
    ELSE [NoChange(bt) EXCEPT
             !.previousCheckRef = CheckKey(date, dur),
             !.apiCache = CacheDelete(CheckKey(date, dur)),
             !.checkingSlots = TRUE,
             !.queries = Append(Outstanding, Query(date, dur, bt, "inflight", <<>>))]

\* the availability effect: it runs when one of its dependencies changed
availabilityEffect(changed, date, dur, config, bt, expired) ==
    IF changed /\ date # <<>> /\ config.loaded /\ dur > 0
    THEN checkAvailability(date, dur, bt, expired)
    ELSE NoChange(bt)

Apply(after) ==
    /\ Len(after.queries) <= MaxQueries
    /\ queries' = after.queries
    /\ checkingSlots' = after.checkingSlots
    /\ previousCheckRef' = after.previousCheckRef
    /\ availableSlots' = after.availableSlots
    /\ apiCache' = after.apiCache
    /\ bookingTime' = after.bookingTime

Rendered == ~loading /\ settings.loaded

\* the page mounts over a fresh or restored booking draft
FormMounted ==
    /\ call = NoCall /\ ret = Pending
    /\ page = "/booking" /\ ContactIdle /\ DraftIdle
    /\ debounced \in BOOLEAN
    /\ selectedLocation \in FormLocations
    /\ bookingDate \in {<<>>, Today}
    /\ bookingTime \in {<<>>, SlotTimes[1]}
    /\ bookingDate = <<>> => bookingTime = <<>>
    /\ durationHours = 4
    /\ settings = NoSettings
    /\ loading = TRUE
    /\ availableSlots = <<>>
    /\ checkingSlots = FALSE
    /\ error = ""
    /\ debouncedDate = bookingDate
    /\ debouncedDuration = durationHours
    /\ previousCheckRef = NoKey
    /\ apiCache = <<>>
    /\ queries = <<>>
    /\ now = ClockAt(0)
    /\ renderedAt = ClockAt(0)

InitBookingForm == FormMounted /\ LedgerIdle

\* loadInitialData, settings and services answered
LoadInitialDataOk ==
    /\ loading
    /\ settings' = SettingsData
    /\ loading' = FALSE
    /\ error' = ""
    /\ LET min == IF debounced THEN getMinDuration ELSE SettingsData.minBookingHours
       IN  durationHours' = IF durationHours < min THEN min ELSE durationHours
    /\ \E expired \in BOOLEAN :
          Apply(availabilityEffect(TRUE,
                                   IF debounced THEN debouncedDate ELSE bookingDate,
                                   IF debounced THEN debouncedDuration
                                   ELSE durationHours',
                                   SettingsData, bookingTime, expired))
    /\ renderedAt' = now
    /\ UNCHANGED <<pureVars, draftVars, summaryVars, debounced, selectedLocation, bookingDate,
                   debouncedDate, debouncedDuration, now>>

\* loadInitialData, the request failed
LoadInitialDataFailed ==
    /\ loading
    /\ loading' = FALSE
    /\ error' = "Failed to load booking data"
    /\ durationHours' = IF debounced THEN getMinDuration ELSE 2
    /\ renderedAt' = now
    /\ UNCHANGED <<pureVars, draftVars, summaryVars, debounced, selectedLocation,
                   bookingDate, bookingTime,
                   settings, availableSlots, checkingSlots, debouncedDate,
                   debouncedDuration, previousCheckRef, apiCache, queries, now>>

\* DatePicker onChange
SelectDate(date) ==
    /\ Rendered
    /\ bookingDate' = date
    /\ Apply(availabilityEffect(~debounced /\ date # bookingDate, date,
                                durationHours, settings, <<>>, FALSE))
    /\ renderedAt' = now
    /\ UNCHANGED <<pureVars, draftVars, summaryVars, debounced, selectedLocation, durationHours,
                   settings, loading, error, debouncedDate, debouncedDuration, now>>

\* the duration select onChange
SelectDuration(hours) ==
    /\ Rendered
    /\ hours \in DurationOptions
    /\ durationHours' = hours
    /\ Apply(availabilityEffect(~debounced /\ hours # durationHours, bookingDate,
                                hours, settings, <<>>, FALSE))
    /\ renderedAt' = now
    /\ UNCHANGED <<pureVars, draftVars, summaryVars, debounced, selectedLocation, bookingDate,
                   settings, loading, error, debouncedDate, debouncedDuration, now>>

\* useDebounce(bookingDate, 300): the timer fires
DebounceDate ==
    /\ debounced
    /\ debouncedDate # bookingDate
    /\ debouncedDate' = bookingDate
    /\ \E expired \in BOOLEAN :
          Apply(availabilityEffect(TRUE, bookingDate, debouncedDuration, settings,
                                   bookingTime, expired))
    /\ renderedAt' = now
    /\ UNCHANGED <<pureVars, draftVars, summaryVars, debounced, selectedLocation, bookingDate,
                   durationHours, settings, loading, error, debouncedDuration, now>>

\* useDebounce(durationHours, 300): the timer fires
DebounceDuration ==
    /\ debounced
    /\ debouncedDuration # durationHours
    /\ debouncedDuration' = durationHours
    /\ \E expired \in BOOLEAN :
          Apply(availabilityEffect(TRUE, debouncedDate, durationHours, settings,
                                   bookingTime, expired))
    /\ renderedAt' = now
    /\ UNCHANGED <<pureVars, draftVars, summaryVars, debounced, selectedLocation, bookingDate,
                   durationHours, settings, loading, error, debouncedDate, now>>

\* checkAvailability after its await, the endpoint having answered
AvailabilityAnswered(i, free) ==
    /\ queries[i].status = "inflight"
    /\ LET q == queries[i]
           formattedSlots == FormattedSlots(q.duration, free)
       IN  /\ availableSlots' = formattedSlots
           /\ error' = ""
           /\ bookingTime' = ClearStale(formattedSlots, q.bookingTime, bookingTime)
           /\ apiCache' =
                  IF debounced
                  THEN [k \in DOMAIN apiCache \cup {CheckKey(q.date, q.duration)} |->
                           IF k = CheckKey(q.date, q.duration) THEN formattedSlots
                           ELSE apiCache[k]]
                  ELSE apiCache
           /\ queries' = [queries EXCEPT ![i].status = "ok", ![i].slots = formattedSlots]
    /\ checkingSlots' = FALSE
    /\ renderedAt' = now
    /\ UNCHANGED <<pureVars, draftVars, summaryVars, debounced, selectedLocation,
                   bookingDate, durationHours,
                   settings, loading, debouncedDate, debouncedDuration,
                   previousCheckRef, now>>

\* checkAvailability after its await, the request having failed
AvailabilityFailed(i) ==
    /\ queries[i].status = "inflight"
    /\ error' = "Failed to check availability"
    /\ availableSlots' = <<>>
    /\ checkingSlots' = FALSE
    /\ queries' = [queries EXCEPT ![i].status = "failed"]
    /\ renderedAt' = now
    /\ UNCHANGED <<pureVars, draftVars, summaryVars, debounced, selectedLocation,
                   bookingDate, bookingTime,
                   durationHours, settings, loading, debouncedDate, debouncedDuration,
                   previousCheckRef, apiCache, now>>

\* a click on button i of the slot grid, as the last render drew it
ClickSlot(i) ==
    /\ Rendered
    /\ bookingDate # <<>>
    /\ ~checkingSlots
    /\ i \in 1..Len(availableSlots)
    /\ LET slot == availableSlots[i]
           isPast == isTimeSlotInPast(bookingDate, slot.startTime, renderedAt)
           isAvailable == slot.available /\ ~isPast
       IN  /\ isAvailable
           /\ bookingTime' = slot.startTime
    /\ renderedAt' = now
    /\ UNCHANGED <<pureVars, draftVars, summaryVars, debounced, selectedLocation,
                   bookingDate, durationHours,
                   settings, loading, availableSlots, checkingSlots, error,
                   debouncedDate, debouncedDuration, previousCheckRef, apiCache,
                   queries, now>>

\* time passes; nothing re-renders the page
Tick ==
    /\ \E tick \in 1..MaxTicks : now = ClockAt(tick - 1) /\ now' = ClockAt(tick)
    /\ UNCHANGED <<pureVars, draftVars, summaryVars, debounced, selectedLocation,
                   bookingDate, bookingTime,
                   durationHours, settings, loading, availableSlots, checkingSlots,
                   error, debouncedDate, debouncedDuration, previousCheckRef, apiCache,
                   queries, renderedAt>>

NextBookingForm ==
    \/ LoadInitialDataOk
    \/ LoadInitialDataFailed
    \/ \E date \in BookableDates : SelectDate(date)
    \/ \E hours \in PickedDurations : SelectDuration(hours)
    \/ DebounceDate
    \/ DebounceDuration
    \/ \E i \in 1..MaxQueries, free \in SUBSET {SlotTimes[j] : j \in 1..Len(SlotTimes)} :
          i <= Len(queries) /\ AvailabilityAnswered(i, free)
    \/ \E i \in 1..MaxQueries : i <= Len(queries) /\ AvailabilityFailed(i)
    \/ \E i \in 1..Len(SlotTimes) : ClickSlot(i)
    \/ Tick

SpecBookingForm == InitBookingForm /\ [][NextBookingForm]_vars

InFlight == {i \in 1..Len(queries) : queries[i].status = "inflight"}

\* a step in which an availability check completes: a request is answered
\* or fails, or a new check is served from the cache
CheckCompletes ==
    \/ \E i \in InFlight : queries'[i].status # "inflight"
    \/ /\ Len(queries') > Len(queries)
       /\ queries'[Len(queries')].status = "cached"

\* C6: after every completed availability check (answered, served from the
\* cache, or failed) the selected bookingTime is empty or the startTime of a
\* slot marked available in the displayed availableSlots, and the check has
\* only ever cleared the selection, never replaced it by another slot.
C6_SelectionAvailableAfterCheck ==
    [][CheckCompletes =>
          /\ bookingTime' = <<>> \/ SlotAvailable(availableSlots', bookingTime')
          /\ bookingTime' \in {bookingTime, <<>>}]_vars

\* C7: once every outstanding availability query has settled, availableSlots
\* holds the response to the latest query, whatever the order of arrival.
C7_LatestQueryWins ==
    (/\ queries # <<>>
     /\ InFlight = {}
     /\ queries[Len(queries)].status \in {"ok", "cached"})
        => availableSlots = queries[Len(queries)].slots

\* C10: a click in the slot grid sets bookingTime to a slot's startTime only
\* if the slot is available and its (bookingDate, startTime) is not strictly
\* before the wall clock at the time of the click.
C10_ClickOnlyFutureAvailable ==
    [][\A i \in 1..Len(availableSlots) :
          ClickSlot(i) =>
             /\ availableSlots[i].available
             /\ ~isTimeSlotInPast(bookingDate, availableSlots[i].startTime, now)]_vars

(***************************************************************************)
(* The contact form of BookingForm, and BookingSummary: editing the        *)
(* contact data, confirming, and the booking-creation request.             *)
(***************************************************************************)
MaxRequests == 2

\* s.replace(/[^...]/g, '') for a character class
KeepChars(s, class) == SelectSeq(s, LAMBDA c : c \in class)

Plus380 == <<"+", "3", "8", "0">>

\* BookingForm.handlePhoneChange: the phone the field holds after the
\* input element reported value
handlePhoneChange(value, current) ==
    IF Len(value) < 4 THEN Plus380
    ELSE LET numericValue == KeepChars(value, Digits \cup {"+"})
             formattedValue ==
                 IF StartsWith(numericValue, <<"+">>) THEN numericValue
                 ELSE <<"+">> \o numericValue
         IN  IF ~StartsWith(formattedValue, Plus380)
             THEN IF StartsWith(formattedValue, <<"+", "0">>)
                  THEN Plus380 \o SubstringFrom(formattedValue, 2)
                  ELSE Plus380
             ELSE IF Len(formattedValue) <= 13 THEN formattedValue
             ELSE current

\* BookingForm.validateForm
bookingFormValid ==
    /\ validateName(formData.firstName, "firstName").valid
    /\ validateName(formData.lastName, "lastName").valid
    /\ validatePhoneNumber(formData.phone).valid
    /\ validateEmail(formData.email).valid
    /\ bookingDate # <<>>
    /\ bookingTime # <<>>
    /\ Len(Trim(formData.notes)) > 0 => validateNotes(formData.notes).valid

\* BookingSummary's own validatePhone: 10 or 12 digits
summaryValidatePhone(phone) ==
    Len(KeepChars(phone, Digits)) \in {10, 12}

\* BookingSummary's own validateEmail: /^[^\s@]+@[^\s@]+\.[^\s@]+$/
summaryValidateEmail(email) ==
    /\ \A i \in 1..Len(email) : email[i] \notin WhitespaceChars
    /\ \E at \in 2..(Len(email) - 3) :
          /\ email[at] = "@"
          /\ \A i \in 1..Len(email) : email[i] = "@" => i = at
          /\ \E dot \in (at + 2)..(Len(email) - 1) : email[dot] = "."

\* BookingSummary.validateForm
summaryFormValid ==
    /\ Len(Trim(formData.firstName)) > 0
    /\ Len(Trim(formData.lastName)) > 0
    /\ Len(Trim(formData.phone)) > 0 /\ summaryValidatePhone(formData.phone)
    /\ Len(Trim(formData.email)) > 0 /\ summaryValidateEmail(formData.email)

\* what the visitor types into the fields of either page
TypedNames == { <<>>, <<"A", "n", "n">>, <<" ", "A", "n", "n", " ">>, <<"A", "4">> }
TypedLastNames == { <<>>, <<"L", "e", "e">> }
TypedPhones ==
    { <<"0", "9", "9", "1", "2", "3", "4", "5", "6", "7">>,
      <<"+", "3", "8", "0", "6", "7", "1", "2", "3", "4", "5", "6", "7">>,
      <<"0", "1", "2", "3", "4", "5", "6", "7", "8", "9">> }
TypedEmails ==
    { <<"a", "n", "n", "@", "e", "x", ".", "c", "o">>,
      <<"A", "n", "n", "@", "E", "x", ".", "c", "o">>,
      <<"a", "n", "n">> }
Typed ==
    [firstName |-> TypedNames, lastName |-> TypedLastNames, phone |-> TypedPhones,
     email |-> TypedEmails]

\* the visitor arrives at the booking page with date and time chosen
InitSummary ==
    /\ call = NoCall /\ ret = Pending
    /\ debounced = TRUE
    /\ selectedLocation \in {l \in FormLocations : l.id = LOCATION_1_UUID}
    /\ bookingDate = Tomorrow
    /\ bookingTime = SlotTimes[1]
    /\ durationHours = 4
    /\ settings = SettingsData
    /\ loading = FALSE
    /\ availableSlots = FormattedSlots(4, {SlotTimes[1]})
    /\ checkingSlots = FALSE
    /\ error = ""
    /\ debouncedDate = Tomorrow
    /\ debouncedDuration = 4
    /\ previousCheckRef = CheckKey(Tomorrow, 4)
    /\ apiCache = <<>>
    /\ queries = <<>>
    /\ now = ClockAt(0)
    /\ renderedAt = ClockAt(0)
    /\ page = "/booking"
    /\ ContactIdle /\ DraftIdle /\ LedgerIdle

\* BookingForm: setFirstName, setLastName, setEmail / updateFormField
updateFormField(field, value) ==
    /\ page = "/booking"
    /\ formData' = [formData EXCEPT ![field] = value]
    /\ UNCHANGED <<pureVars, draftVars, formVars, page, contactInfo, isSubmittingRef,
                   submitLoading, submitError, bookingComplete, requests, console>>

\* BookingForm: the phone input reports value
PhoneChange(value) ==
    /\ page = "/booking"
    /\ formData' = [formData EXCEPT !.phone = handlePhoneChange(value, formData.phone)]
    /\ UNCHANGED <<pureVars, draftVars, formVars, page, contactInfo, isSubmittingRef,
                   submitLoading, submitError, bookingComplete, requests, console>>

\* BookingForm.handleSubmit
handleSubmit ==
    /\ page = "/booking"
    /\ IF ~bookingFormValid
       THEN /\ error' = "fill in all required fields correctly"
            /\ UNCHANGED <<page, contactInfo>>
       ELSE /\ contactInfo' =
                  [firstName |-> Trim(formData.firstName),
                   lastName |-> Trim(formData.lastName),
                   phone |-> normalizePhoneNumber(formData.phone),
                   email |-> ToLowerCase(Trim(formData.email)),
                   notes |-> Trim(formData.notes)]
            /\ page' = "/clothing"
            /\ UNCHANGED error
    /\ UNCHANGED <<pureVars, draftVars, debounced, selectedLocation, bookingDate, bookingTime,
                   durationHours, settings, loading, availableSlots, checkingSlots,
                   debouncedDate, debouncedDuration, previousCheckRef, apiCache,
                   queries, now, renderedAt, formData, isSubmittingRef, submitLoading,
                   submitError, bookingComplete, requests, console>>

\* BookingSummary mounts: its formData starts as the context's contactInfo
MountSummary ==
    /\ page = "/clothing"
    /\ page' = "/summary"
    /\ formData' = contactInfo
    /\ isSubmittingRef' = FALSE
    /\ submitLoading' = FALSE
    /\ submitError' = ""
    /\ bookingComplete' = FALSE
    /\ UNCHANGED <<pureVars, draftVars, formVars, contactInfo, requests, console>>

\* BookingSummary.handleInputChange
handleInputChange(field, value) ==
    /\ page = "/summary" /\ ~bookingComplete
    /\ ~submitLoading
    /\ formData' = [formData EXCEPT ![field] = value]
    /\ contactInfo' = formData'
    /\ UNCHANGED <<pureVars, draftVars, formVars, page, isSubmittingRef, submitLoading,
                   submitError, bookingComplete, requests, console>>

bookingRequest ==
    [firstName |-> Trim(formData.firstName),
     lastName |-> Trim(formData.lastName),
     phoneNumber |-> Trim(formData.phone),
     email |-> Trim(formData.email),
     notes |-> Trim(formData.notes),
     status |-> "inflight"]

\* handleConfirmBooking without the isSubmittingRef test
handleConfirmBooking_unguarded ==
    /\ page = "/summary" /\ ~bookingComplete
    /\ IF ~summaryFormValid
       THEN /\ console' = "Form validation failed"
            /\ UNCHANGED <<isSubmittingRef, submitLoading, submitError, requests>>
       ELSE /\ Len(requests) < MaxRequests
            /\ isSubmittingRef' = TRUE
            /\ submitLoading' = TRUE
            /\ submitError' = ""
            /\ requests' = Append(requests, bookingRequest)
            /\ console' = "Sending booking request"
    /\ UNCHANGED <<pureVars, draftVars, formVars, page, contactInfo, formData, bookingComplete>>

\* BookingSummary.handleConfirmBooking, up to its await
handleConfirmBooking ==
    /\ page = "/summary" /\ ~bookingComplete
    /\ IF isSubmittingRef
       THEN /\ console' = "Submit already in progress, ignoring duplicate request"
            /\ UNCHANGED <<isSubmittingRef, submitLoading, submitError, requests>>
       ELSE IF ~summaryFormValid
       THEN /\ console' = "Form validation failed"
            /\ UNCHANGED <<isSubmittingRef, submitLoading, submitError, requests>>
       ELSE /\ Len(requests) < MaxRequests
            /\ isSubmittingRef' = TRUE
            /\ submitLoading' = TRUE
            /\ submitError' = ""
            /\ requests' = Append(requests, bookingRequest)
            /\ console' = "Sending booking request"
    /\ UNCHANGED <<pureVars, draftVars, formVars, page, contactInfo, formData, bookingComplete>>

Sent == {i \in 1..Len(requests) : requests[i].status = "inflight"}

\* handleConfirmBooking after its await: the booking is created and the
\* response carries LiqPay data, so the page posts the payment form
BookingCreatedWithPayment(i) ==
    /\ page = "/summary"
    /\ i \in Sent
    /\ requests' = [requests EXCEPT ![i].status = "created"]
    /\ console' = "LiqPay data found, redirecting to payment"
    /\ UNCHANGED <<pureVars, draftVars, formVars, page, contactInfo, formData, isSubmittingRef,
                   submitLoading, submitError, bookingComplete>>

\* handleConfirmBooking after its await: the booking is created without
\* payment data, so the page shows the success view
BookingCreated(i) ==
    /\ page = "/summary"
    /\ i \in Sent
    /\ requests' = [requests EXCEPT ![i].status = "created"]
    /\ bookingComplete' = TRUE
    /\ console' = "No LiqPay data in response, showing success directly"
    /\ UNCHANGED <<pureVars, draftVars, formVars, page, contactInfo, formData, isSubmittingRef,
                   submitLoading, submitError>>

\* handleConfirmBooking after its await: bookingService.create threw
BookingFailed(i) ==
    /\ page = "/summary"
    /\ i \in Sent
    /\ requests' = [requests EXCEPT ![i].status = "failed"]
    /\ submitError' = "booking could not be created"
    /\ submitLoading' = FALSE
    /\ isSubmittingRef' = FALSE
    /\ console' = "Booking error"
    /\ UNCHANGED <<pureVars, draftVars, formVars, page, contactInfo, formData, bookingComplete>>

NextSummary ==
    \/ \E field \in {"firstName", "lastName", "email"} :
          \E value \in Typed[field] : updateFormField(field, value)
    \/ \E value \in TypedPhones : PhoneChange(value)
    \/ handleSubmit
    \/ MountSummary
    \/ \E field \in DOMAIN Typed : \E value \in Typed[field] :
          handleInputChange(field, value)
    \/ handleConfirmBooking
    \/ \E i \in 1..MaxRequests : BookingCreatedWithPayment(i)
    \/ \E i \in 1..MaxRequests : BookingCreated(i)
    \/ \E i \in 1..MaxRequests : BookingFailed(i)

SpecSummary == InitSummary /\ [][NextSummary]_vars

\* C8: handleConfirmBooking sends only from the idle state: every request
\* but the last one sent has failed, so at most one request is in flight,
\* a call made while one is in flight sends nothing, and nothing is sent
\* after a request has succeeded.
C8_SubmitOnlyFromIdle ==
    \A i \in 1..(Len(requests) - 1) : requests[i].status = "failed"

\* a call arrived while the retry of a failed request was in flight, and
\* was ignored
C8_Witness ==
    /\ Len(requests) = 2
    /\ requests[1].status = "failed"
    /\ requests[2].status = "inflight"
    /\ console = "Submit already in progress, ignoring duplicate request"

\* the contact data of a BookingRequest satisfy the Form Validation rules
ValidContact(r) ==
    /\ Canonical(r.phoneNumber)
    /\ r.email = ToLowerCase(Trim(r.email)) /\ validateEmail(r.email).valid
    /\ r.firstName = Trim(r.firstName) /\ validateName(r.firstName, "firstName").valid
    /\ r.lastName = Trim(r.lastName) /\ validateName(r.lastName, "lastName").valid

\* C9: every BookingRequest given to bookingService.create carries a
\* canonical phone number, a trimmed lower-cased email and trimmed valid
\* names, whatever was edited on the two pages before confirming.
C9_RequestsCarryValidContact ==
    \A i \in 1..Len(requests) : ValidContact(requests[i])

(***************************************************************************)
(* Debouncing of the availability check                                    *)
(***************************************************************************)
\* a step in which checkAvailability sends a request to the endpoint
QuerySent == Len(Outstanding') = Len(Outstanding) + 1

\* C11: the debounced BookingForm sends an availability query only for the
\* settled values: a query that goes out carries the date and the duration
\* the form holds at that moment, so changes made within the debounce
\* window are coalesced into one query for the final values.
C11_OneQueryPerSettledInput ==
    [][(debounced /\ QuerySent) =>
          /\ queries'[Len(queries')].date = bookingDate'
          /\ queries'[Len(queries')].duration = durationHours']_vars

(***************************************************************************)
(* Deposit                                                                 *)
(***************************************************************************)
\* C12: for non-negative rate, prices, quantities and duration, both
\* versions of calculateTotals yield totalAmount >= depositAmount >= 0.
C12_DepositWithinTotal ==
    TotalsReturned =>
        /\ IsNum(ret.value.totalAmount) /\ IsNum(ret.value.depositAmount)
        /\ ret.value.totalAmount >= ret.value.depositAmount
        /\ ret.value.depositAmount >= 0

\* the capped version returned a deposit held down to one hour's rate
C12_Witness ==
    /\ call.fn = "calculateTotalsCapped" /\ ret.done
    /\ ret.value.depositAmount > 0
    /\ ret.value.depositAmount = parseFloat(call.selectedLocation.hourlyRate)
    /\ ret.value.depositAmount < TimesHalf(ret.value.totalAmount)

\* a percentage written with decimals zero, as a whole number
WholePercent(percentage) == parseFloat(percentage) \div MoneyScale

\* C13: under the percentage deposit policy the deposit of BookingSummary is
\* totalAmount times the depositPercentage configured in BookingSettings.
C13_DepositIsConfiguredPercentage ==
    (call.fn = "calculateTotals" /\ ret.done) =>
        ret.value.depositAmount * 100
            = ret.value.totalAmount * WholePercent(call.settings.depositPercentage)

(***************************************************************************)
(* Phone numbers: acceptance and normal form                               *)
(***************************************************************************)
\* +380, 380 or 0, then exactly 9 digits that start with a whitelisted code
WellFormedPhone(s) ==
    \E prefix \in {<<"+", "3", "8", "0">>, <<"3", "8", "0">>, <<"0">>} :
        /\ Len(s) = Len(prefix) + 9
        /\ SubSeq(s, 1, Len(prefix)) = prefix
        /\ \A i \in (Len(prefix) + 1)..Len(s) : s[i] \in Digits
        /\ DigitValue(s[Len(prefix) + 1]) * 10 + DigitValue(s[Len(prefix) + 2])
               \in WhitelistedCodes

PhoneValidated == call.fn = "validatePhoneNumber" /\ ret.done

\* C14: validatePhoneNumber returns valid=true exactly when the input, with
\* whitespace, parentheses and dashes removed, is +380, 380 or 0 followed by
\* 9 digits starting with a whitelisted operator code; 0991234567 is
\* accepted and 0123456789 is rejected with the operator-code message.
C14_PhoneValidIff ==
    PhoneValidated =>
        /\ ret.value.valid
              <=> WellFormedPhone(SelectSeq(call.phone,
                                            LAMBDA c : c \notin PhoneSeparators))
        /\ call.phone = <<"0", "9", "9", "1", "2", "3", "4", "5", "6", "7">>
              => ret.value.valid
        /\ call.phone = <<"0", "1", "2", "3", "4", "5", "6", "7", "8", "9">>
              => ~ret.value.valid /\ ret.value.message = "phone: operator code"

C14_Witness ==
    /\ PhoneValidated
    /\ call.phone = <<"0", "1", "2", "3", "4", "5", "6", "7", "8", "9">>
    /\ ret.value.message = "phone: operator code"

\* the last nine digits of a raw phone string
NationalNumber(raw) ==
    LET d == SelectSeq(raw, LAMBDA c : c \in Digits)
    IN  SubSeq(d, Len(d) - 8, Len(d))

Spellings067 ==
    { <<"0", "6", "7", "1", "2", "3", "4", "5", "6", "7">>,
      <<"3", "8", "0", "6", "7", "1", "2", "3", "4", "5", "6", "7">>,
      <<"+", "3", "8", "0", "6", "7", "1", "2", "3", "4", "5", "6", "7">> }

NormalizedTwice == call.fn = "normalizePhoneNumber again" /\ ret.done /\ call.accepted

\* C15: on accepted numbers normalizePhoneNumber is idempotent and sends
\* every spelling of a number to the one string +380 and its nine digits: a
\* canonical number is returned unchanged, and 0671234567, 380671234567 and
\* +380671234567 all yield +380671234567.
C15_NormalizeIdempotent ==
    NormalizedTwice =>
        /\ ret.value = call.phone
        /\ call.phone = <<"+", "3", "8", "0">> \o NationalNumber(call.raw)
        /\ Canonical(call.raw) => call.phone = call.raw
        /\ call.raw \in Spellings067
              => ret.value = <<"+", "3", "8", "0", "6", "7", "1", "2", "3", "4", "5",
                               "6", "7">>

\* the number written with the trunk prefix 0 was normalized twice
C15_Witness ==
    /\ NormalizedTwice
    /\ call.raw = <<"0", "6", "7", "1", "2", "3", "4", "5", "6", "7">>
    /\ ret.value = <<"+", "3", "8", "0", "6", "7", "1", "2", "3", "4", "5", "6", "7">>

(***************************************************************************)
(* calculateTotals in the arithmetic of the JavaScript Number type.        *)
(* A Number is an IEEE-754 binary64 value: 53 significant bits, every      *)
(* operation rounded to nearest, ties to even.  Natural numbers of any     *)
(* size are sequences of 15-bit limbs, least significant limb first and    *)
(* no zero limb at the top; a Number is m * 2^e with m odd (m = <<>> for   *)
(* zero), so equal values are equal records.  Amounts are non-negative     *)
(* and far from the exponent limits.                                       *)
(***************************************************************************)
PowersOfTwo == <<1, 2, 4, 8, 16, 32, 64, 128, 256, 512, 1024, 2048, 4096, 8192,
                 16384, 32768>>
TwoTo(k) == PowersOfTwo[k + 1]

RECURSIVE BigOf(_)
BigOf(n) == IF n = 0 THEN <<>> ELSE <<n % 32768>> \o BigOf(n \div 32768)

\* the limb sequence without its zero limbs at the top
RECURSIVE StripTop(_)
StripTop(limbs) ==
    IF limbs # <<>> /\ limbs[Len(limbs)] = 0
    THEN StripTop(SubSeq(limbs, 1, Len(limbs) - 1))
    ELSE limbs

RECURSIVE BigAdd(_, _, _)
BigAdd(a, b, carry) ==
    IF a = <<>> /\ b = <<>> THEN (IF carry = 0 THEN <<>> ELSE <<carry>>)
    ELSE LET s == (IF a = <<>> THEN 0 ELSE Head(a))
                + (IF b = <<>> THEN 0 ELSE Head(b)) + carry
         IN  IF s >= 32768
             THEN <<s - 32768>> \o BigAdd(IF a = <<>> THEN <<>> ELSE Tail(a),
                                             IF b = <<>> THEN <<>> ELSE Tail(b), 1)
             ELSE <<s>> \o BigAdd(IF a = <<>> THEN <<>> ELSE Tail(a),
                                  IF b = <<>> THEN <<>> ELSE Tail(b), 0)

\* a times one limb
RECURSIVE BigMulLimb(_, _, _)
BigMulLimb(a, limb, carry) ==
    IF a = <<>> THEN (IF carry = 0 THEN <<>> ELSE <<carry>>)
    ELSE <<(Head(a) * limb + carry) % 32768>>
         \o BigMulLimb(Tail(a), limb, (Head(a) * limb + carry) \div 32768)

RECURSIVE BigMul(_, _)
BigMul(a, b) ==
    IF a = <<>> \/ b = <<>> THEN <<>>
    ELSE StripTop(BigAdd(BigMulLimb(a, Head(b), 0), <<0>> \o BigMul(a, Tail(b)), 0))

\* long division of limbs[1..i], with the remainder of the limbs above,
\* by a divisor below 2^16
RECURSIVE BigDivFrom(_, _, _, _, _)
BigDivFrom(limbs, i, d, rem, quot) ==
    IF i = 0 THEN [quot |-> StripTop(quot), rem |-> rem]
    ELSE BigDivFrom(limbs, i - 1, d, (rem * 32768 + limbs[i]) % d,
                    <<(rem * 32768 + limbs[i]) \div d>> \o quot)

BigDiv(limbs, d) == BigDivFrom(limbs, Len(limbs), d, 0, <<>>)

\* a * 2^n and floor(a / 2^n)
ShiftLeft(a, n) ==
    IF a = <<>> THEN <<>>
    ELSE [i \in 1..(n \div 15) |-> 0] \o BigMulLimb(a, TwoTo(n % 15), 0)

ShiftRight(a, n) ==
    IF n \div 15 >= Len(a) THEN <<>>
    ELSE BigDiv(SubSeq(a, n \div 15 + 1, Len(a)), TwoTo(n % 15)).quot

\* the number of bits of a, its bit i (bit 0 the lowest), and whether a bit
\* below bit n is set
BitLength(a) ==
    IF a = <<>> THEN 0
    ELSE (Len(a) - 1) * 15
         + (CHOOSE k \in 1..15 : TwoTo(k - 1) <= a[Len(a)] /\ a[Len(a)] < TwoTo(k))

Bit(a, i) ==
    IF i \div 15 >= Len(a) THEN 0
    ELSE (a[i \div 15 + 1] \div TwoTo(i % 15)) % 2

AnyBitBelow(a, n) == \E i \in 0..(n - 1) : Bit(a, i) = 1

NaN64 == [nan |-> TRUE, m |-> <<>>, e |-> 0]

\* a * 2^e with the zero bits at the bottom of a moved into the exponent
Canon(a, e) ==
    IF a = <<>> THEN [nan |-> FALSE, m |-> <<>>, e |-> 0]
    ELSE LET z == CHOOSE k \in 0..(BitLength(a) - 1) :
                      Bit(a, k) = 1 /\ ~AnyBitBelow(a, k)
         IN  [nan |-> FALSE, m |-> ShiftRight(a, z), e |-> e + z]

\* the Number nearest to a * 2^e, ties to even
RoundNearestEven(a, e) ==
    LET r == BitLength(a) - 53
    IN  IF r <= 0 THEN Canon(a, e)
        ELSE LET kept == ShiftRight(a, r)
                 up == Bit(a, r - 1) = 1 /\ (AnyBitBelow(a, r - 1) \/ Bit(kept, 0) = 1)
             IN  Canon(IF up THEN BigAdd(kept, <<1>>, 0) ELSE kept, e + r)

\* the Number of a natural number and of a count of half hours
NumberOf(n) == Canon(BigOf(n), 0)
HalvesOf(n) == Canon(BigOf(n), 0 - 1)

\* a + b
NumberAdd(a, b) ==
    IF a.nan \/ b.nan THEN NaN64
    ELSE IF a.m = <<>> THEN b
    ELSE IF b.m = <<>> THEN a
    ELSE LET lo == IF a.e < b.e THEN a.e ELSE b.e
         IN  RoundNearestEven(BigAdd(ShiftLeft(a.m, a.e - lo),
                                     ShiftLeft(b.m, b.e - lo), 0), lo)

\* a * b
NumberMul(a, b) ==
    IF a.nan \/ b.nan THEN NaN64
    ELSE RoundNearestEven(BigMul(a.m, b.m), a.e + b.e)

\* the Number nearest to n / d, for 0 < d < 2^16: the quotient of n * 2^70
\* by d has more than 54 bits, and one more bit below it records a remainder
NumberRatio(n, d) ==
    LET dv == BigDiv(ShiftLeft(BigOf(n), 70), d)
    IN  RoundNearestEven(BigAdd(ShiftLeft(dv.quot, 1),
                                IF dv.rem # 0 /\ dv.quot # <<>> THEN <<1>> ELSE <<>>, 0),
                         0 - 71)

RECURSIVE PowerOfTen(_)
PowerOfTen(n) == IF n = 0 THEN 1 ELSE 10 * PowerOfTen(n - 1)

\* parseFloat(s) as a Number: the decimal digits[.digits] at the start of s
\* converted to the nearest binary64 value
parseFloatNumber(s) ==
    LET t == TrimStart(s)
        whole == DigitPrefix(t)
        rest == SubSeq(t, Len(whole) + 1, Len(t))
        frac == IF rest # <<>> /\ Head(rest) = "." THEN DigitPrefix(Tail(rest)) ELSE <<>>
    IN  IF whole = <<>> /\ frac = <<>> THEN NaN64
        ELSE NumberRatio(DigitsValue(whole \o frac, 0), PowerOfTen(Len(frac)))

\* selectedServices.reduce((sum, service) => sum + parseFloat(service.price), 0)
RECURSIVE ReduceServicesNumber(_, _)
ReduceServicesNumber(sum, services) ==
    IF services = <<>> THEN sum
    ELSE ReduceServicesNumber(NumberAdd(sum, parseFloatNumber(Head(services).price)),
                              Tail(services))

\* clothingCart.reduce((sum, item) => sum + parseFloat(item.item.price) * item.quantity, 0)
RECURSIVE ReduceCartNumber(_, _)
ReduceCartNumber(sum, cart) ==
    IF cart = <<>> THEN sum
    ELSE ReduceCartNumber(
             NumberAdd(sum, NumberMul(parseFloatNumber(Head(cart).item.price),
                                      NumberOf(Head(cart).quantity))),
             Tail(cart))

\* BookingSummary.tsx calculateTotals, every operation rounded as the
\* engine rounds it
calculateTotalsNumber(location, hours, services, cart) ==
    LET baseCost == NumberMul(parseFloatNumber(HourlyRateOrZero(location)),
                              HalvesOf(hours))
        servicesCost == ReduceServicesNumber(NumberOf(0), services)
        clothingCost == ReduceCartNumber(NumberOf(0), cart)
        propsCost == NumberOf(0)
        totalAmount == NumberAdd(NumberAdd(NumberAdd(baseCost, servicesCost),
                                           clothingCost), propsCost)
        depositAmount == NumberMul(totalAmount, NumberRatio(3, 10))
    IN  [baseCost |-> baseCost, servicesCost |-> servicesCost,
         clothingCost |-> clothingCost, totalAmount |-> totalAmount,
         depositAmount |-> depositAmount]

(***************************************************************************)
(* The summary page rendered for a selection and rendered again for the    *)
(* same selection in another order                                         *)
(***************************************************************************)
MaxOrderedServices == 3

StudioServices ==
    { [id |-> "s4", price |-> <<"1", "5", "0", ".", "1", "0">>],
      [id |-> "s5", price |-> <<"4", "9", ".", "9", "9">>],
      [id |-> "s6", price |-> <<"7", "5", ".", "2", "5">>] }

OrderedSelections(n) ==
    {q \in SeqsUpTo(StudioServices, n) :
        \A i, j \in 1..Len(q) : i # j => q[i].id # q[j].id}

\* the sequences with the elements of q in every order
Reorderings(q) ==
    { [i \in 1..Len(q) |-> q[p[i]]] :
        p \in {f \in [1..Len(q) -> 1..Len(q)] :
                  \A i, j \in 1..Len(q) : i # j => f[i] # f[j]} }

OrderCalls ==
    [fn : {"calculateTotalsNumber"},
     selectedLocation : PricingLocations,
     durationHours : {3, 4},
     selectedServices : OrderedSelections(MaxOrderedServices),
     clothingCart : Carts(MaxCartLines)]

InitOrder == call \in OrderCalls /\ ret = Pending /\ FormIdle /\ SummaryIdle /\ DraftIdle /\ LedgerIdle

CallCalculateTotalsNumber ==
    /\ call.fn = "calculateTotalsNumber"
    /\ ~ret.done
    /\ ret' = Returned(calculateTotalsNumber(call.selectedLocation, call.durationHours,
                                             call.selectedServices, call.clothingCart))
    /\ UNCHANGED <<call, formVars, summaryVars, draftVars>>

\* the page rendered again with the same services and cart lines in
\* another order; the totals of the first render are kept for comparison
RenderReordered ==
    /\ call.fn = "calculateTotalsNumber"
    /\ ret.done
    /\ \E services \in Reorderings(call.selectedServices),
          cart \in Reorderings(call.clothingCart) :
          /\ call' = [fn |-> "calculateTotalsNumber reordered",
                      first |-> ret.value,
                      selectedLocation |-> call.selectedLocation,
                      durationHours |-> call.durationHours,
                      selectedServices |-> services,
                      clothingCart |-> cart]
          /\ ret' = Returned(calculateTotalsNumber(call.selectedLocation,
                                                   call.durationHours, services, cart))
    /\ UNCHANGED <<formVars, summaryVars, draftVars>>

NextOrder == CallCalculateTotalsNumber \/ RenderReordered

SpecOrder == InitOrder /\ [][NextOrder]_vars

Reordered == call.fn = "calculateTotalsNumber reordered" /\ ret.done

\* C16: the total does not depend on the order of the selected services or
\* of the cart lines: every permutation of selectedServices and of
\* clothingCart gives the same totalAmount.
C16_TotalOrderIndependent ==
    Reordered => ret.value.totalAmount = call.first.totalAmount

(***************************************************************************)
(* validateName on names around the length limits                          *)
(***************************************************************************)
NameLengths == {1, 2, 3, 50, 51}

\* a name of n characters: first, inner at the second place, "b" up to the
\* last place, last
NameBody(n, first, inner, last) ==
    [i \in 1..n |-> IF i = 1 THEN first
                    ELSE IF i = n THEN last
                    ELSE IF i = 2 THEN inner
                    ELSE "b"]

TypedNameValues ==
    {<<>>, <<" ">>}
    \cup {Join(<<lead, NameBody(n, first, inner, last), trail>>) :
            lead \in {<<>>, <<" ">>},
            n \in NameLengths,
            first \in {"a", "U+0456", "1"},
            inner \in {"b", " ", "\t", "'"},
            last \in {"Z", "U+044F", "-", "_"},
            trail \in {<<>>, <<" ">>}}

InitName ==
    /\ call \in [fn : {"validateName"}, name : TypedNameValues,
                 fieldName : {"firstName", "lastName"}]
    /\ ret = Pending
    /\ FormIdle /\ SummaryIdle /\ DraftIdle /\ LedgerIdle

CallValidateName ==
    /\ call.fn = "validateName"
    /\ ~ret.done
    /\ ret' = Returned(validateName(call.name, call.fieldName))
    /\ UNCHANGED <<call, formVars, summaryVars, draftVars>>

NextName == CallValidateName

SpecName == InitName /\ [][NextName]_vars

NameValidated == call.fn = "validateName" /\ ret.done

\* Latin and Cyrillic letters, spaces, apostrophes and hyphens
LettersSpacesApostrophesHyphens ==
    LatinLetters \cup CyrillicRange \cup UkrainianExtra \cup {" ", "'", "-"}

\* C17: validateName accepts a name of allowed characters whose trimmed
\* length is exactly 2 or exactly 50, rejects trimmed length 1 with the
\* minimum-length message and trimmed length 51 with the maximum-length
\* message, and rejects every name with a character that is not a Latin or
\* Cyrillic letter, a space, an apostrophe or a hyphen.
C17_NameLimitsAndCharacters ==
    NameValidated =>
        LET n == Len(Trim(call.name))
            allowed == AllIn(call.name, LettersSpacesApostrophesHyphens)
        IN  /\ (allowed /\ n \in {2, 50}) => ret.value.valid
            /\ n = 1 => ret.value = Result(FALSE, call.fieldName \o ": minimum 2 characters")
            /\ n = 51 => ret.value =
                   Result(FALSE, call.fieldName \o ": too long (maximum 50 characters)")
            /\ ~allowed => ~ret.value.valid

(***************************************************************************)
(* validateEmail on addresses around its limits                            *)
(***************************************************************************)
IvanAtExample ==
    <<"i", "v", "a", "n", "@", "e", "x", "a", "m", "p", "l", "e", ".", "c", "o", "m">>

ExampleCom == <<"e", "x", "a", "m", "p", "l", "e", ".", "c", "o", "m">>

EmailLocals ==
    { <<>>, <<"i", "v", "a", "n">>, <<"a", ".", ".", "b">>, <<"a", ".", "b">>,
      <<"i", "v", " ", "n">>, Chars(64, "a"), Chars(65, "a") }

EmailDomains ==
    { <<>>, ExampleCom, <<"e", "x", "a", "m", "p", "l", "e">>,
      <<"e", "x", "a", "m", "p", "l", "e", ".", ".", "c", "o", "m">>,
      <<"e", "x", "-", ".", "c", "o", "m">>,
      <<".", "c", "o", "m">>,
      Join(<<Chars(63, "d"), <<".">>, Chars(63, "e"), <<".">>, Chars(63, "f")>>),
      Join(<<Chars(63, "d"), <<".">>, Chars(63, "e"), <<".">>, Chars(61, "f")>>) }

TypedEmailValues ==
    {Join(<<lead, localPart, at, domain, trail>>) :
        lead \in {<<>>, <<" ">>},
        localPart \in EmailLocals,
        at \in {<<>>, <<"@">>, <<"@", "@">>},
        domain \in EmailDomains,
        trail \in {<<>>, <<" ">>}}

InitEmail ==
    /\ call \in [fn : {"validateEmail"}, email : TypedEmailValues]
    /\ ret = Pending
    /\ FormIdle /\ SummaryIdle /\ DraftIdle /\ LedgerIdle

CallValidateEmail ==
    /\ call.fn = "validateEmail"
    /\ ~ret.done
    /\ ret' = Returned(validateEmail(call.email))
    /\ UNCHANGED <<call, formVars, summaryVars, draftVars>>

NextEmail == CallValidateEmail

SpecEmail == InitEmail /\ [][NextEmail]_vars

EmailValidated == call.fn = "validateEmail" /\ ret.done

\* the part of an address before its first "@" and the part after it
LocalPartOf(email) == Split(email, "@")[1]
DomainOf(email) ==
    IF Len(Split(email, "@")) >= 2
    THEN SubSeq(email, Len(LocalPartOf(email)) + 2, Len(email))
    ELSE <<>>

\* C18: validateEmail rejects every address that is empty, longer than 254
\* characters, has a local part longer than 64 characters, has a domain
\* without a dot, or contains two consecutive dots anywhere
\* (a..b@example.com is invalid), and it accepts ivan@example.com.
C18_EmailLimits ==
    EmailValidated =>
        /\ ( \/ Len(Trim(call.email)) = 0
             \/ Len(call.email) > 254
             \/ Len(LocalPartOf(call.email)) > 64
             \/ ~Includes(DomainOf(call.email), <<".">>)
             \/ Includes(call.email, <<".", ".">>) ) => ~ret.value.valid
        /\ call.email = <<"a", ".", ".", "b", "@">> \o ExampleCom => ~ret.value.valid
        /\ call.email = IvanAtExample => ret.value.valid

C18_Witness ==
    /\ EmailValidated
    /\ call.email = <<"a", ".", ".", "b", "@">> \o ExampleCom
    /\ ret.value = Result(FALSE, "email: inadmissible characters")

(***************************************************************************)
(* assertAllParamsWithErrors.  A value of the params record is tagged with *)
(* its typeof; a name that is not a key of params reads as undefined.      *)
(***************************************************************************)
JsUndefined == [type |-> "undefined"]
JsNull == [type |-> "null"]
JsString(s) == [type |-> "string", value |-> s]
\* a number, by its decimal digits
JsNumber(digits) == [type |-> "number", value |-> digits]

\* params[param]
ParamValue(params, param) ==
    IF param \in DOMAIN params THEN params[param] ELSE JsUndefined

\* value !== undefined && value !== null && !isInvalidString, with any
\* string that has a character counted as filled in
isValid_untrimmed(value) ==
    LET isInvalidString == value.type = "string" /\ value.value = <<>>
    IN  value.type # "undefined" /\ value.type # "null" /\ ~isInvalidString

\* value !== undefined && value !== null && !isInvalidString
isValid(value) ==
    LET isInvalidString == value.type = "string" /\ Trim(value.value) = <<>>
    IN  value.type # "undefined" /\ value.type # "null" /\ ~isInvalidString

\* for (const param of requiredParams) { ... }
RECURSIVE AssertLoop(_, _, _, _)
AssertLoop(params, requiredParams, missingParams, validationErrors) ==
    IF requiredParams = <<>>
    THEN [missingParams |-> missingParams, validationErrors |-> validationErrors]
    ELSE LET param == Head(requiredParams)
         IN  IF ~isValid(ParamValue(params, param))
             THEN AssertLoop(params, Tail(requiredParams),
                             Append(missingParams, param),
                             Append(validationErrors,
                                    [paramName |-> param,
                                     errorMessage |-> "Missing or invalid parameter: "
                                                        \o param]))
             ELSE AssertLoop(params, Tail(requiredParams), missingParams,
                             validationErrors)

assertAllParamsWithErrors(params, requiredParams) ==
    LET done == AssertLoop(params, requiredParams, <<>>, <<>>)
    IN  [isValid |-> Len(done.missingParams) = 0,
         missingParams |-> done.missingParams,
         params |-> params,
         errors |-> done.validationErrors]

MaxRequiredParams == 3

ParamNames == {"firstName", "phone", "email"}

ParamValues ==
    { JsUndefined, JsNull, JsString(<<>>), JsString(<<" ">>), JsString(<<"\t", " ">>),
      JsString(<<" ", "x">>), JsNumber(<<"0">>) }

\* the records with some of the names as keys
ParamRecords == UNION {[keys -> ParamValues] : keys \in SUBSET ParamNames}

InitParams ==
    /\ call \in [fn : {"assertAllParamsWithErrors"}, params : ParamRecords,
                 requiredParams : SeqsUpTo(ParamNames, MaxRequiredParams)]
    /\ ret = Pending
    /\ FormIdle /\ SummaryIdle /\ DraftIdle /\ LedgerIdle

CallAssertAllParamsWithErrors ==
    /\ call.fn = "assertAllParamsWithErrors"
    /\ ~ret.done
    /\ ret' = Returned(assertAllParamsWithErrors(call.params, call.requiredParams))
    /\ UNCHANGED <<call, formVars, summaryVars, draftVars>>

NextParams == CallAssertAllParamsWithErrors

SpecParams == InitParams /\ [][NextParams]_vars

ParamsAsserted == call.fn = "assertAllParamsWithErrors" /\ ret.done

\* the value of name in the call's params is undefined, null or a string of
\* whitespace only
MissingInCall(name) ==
    \/ name \notin DOMAIN call.params
    \/ call.params[name].type \in {"undefined", "null"}
    \/ /\ call.params[name].type = "string"
       /\ \A i \in 1..Len(call.params[name].value) :
              call.params[name].value[i] \in WhitespaceChars

\* C19: assertAllParamsWithErrors returns in missingParams exactly the names
\* of requiredParams whose value in params is undefined, null or a blank
\* string, in the order of requiredParams, with one errors entry per missing
\* name; isValid is true iff missingParams is empty, and params is returned
\* unchanged.
C19_MissingParamsReported ==
    ParamsAsserted =>
        /\ ret.value.missingParams = SelectSeq(call.requiredParams, MissingInCall)
        /\ Len(ret.value.errors) = Len(ret.value.missingParams)
        /\ \A i \in 1..Len(ret.value.errors) :
              ret.value.errors[i].paramName = ret.value.missingParams[i]
        /\ ret.value.isValid <=> ret.value.missingParams = <<>>
        /\ ret.value.params = call.params

C19_Witness ==
    /\ ParamsAsserted
    /\ call.requiredParams = <<"email", "firstName", "phone">>
    /\ call.params = [firstName |-> JsString(<<" ", "x">>), phone |-> JsString(<<"\t", " ">>)]
    /\ ret.value.missingParams = <<"email", "phone">>
    /\ ~ret.value.isValid

(***************************************************************************)
(* The validators on field values that may be missing.  A call either      *)
(* returns or ends with a TypeError (a method of undefined or null).       *)
(***************************************************************************)
Threw(name) == [done |-> TRUE, threw |-> name]

IsMissing(v) == v.type \in {"undefined", "null"}

\* !name || ..., !phone || ..., !email || ...: a missing value takes the
\* branch of the empty string
StringOrEmpty(v) == IF IsMissing(v) THEN <<>> ELSE v.value

validateNameOf(v, fieldName) == Returned(validateName(StringOrEmpty(v), fieldName))
validatePhoneNumberOf(v) == Returned(validatePhoneNumber(StringOrEmpty(v)))
validateEmailOf(v) == Returned(validateEmail(StringOrEmpty(v)))

\* notes.trim() is the first thing validateNotes does
validateNotesOf(v) ==
    IF IsMissing(v) THEN Threw("TypeError") ELSE Returned(validateNotes(v.value))

\* validateBookingForm reads each field through the validators above or
\* through !data.bookingDate, !data.bookingTime and if (data.notes)
validateBookingFormOf(data) ==
    Returned(validateBookingForm([f \in DOMAIN data |-> StringOrEmpty(data[f])]))

FieldValues(strings) == {JsUndefined, JsNull} \cup {JsString(s) : s \in strings}

ValidatorCalls ==
    [fn : {"validateName"},
     value : FieldValues({<<>>, <<" ">>, <<"a">>, <<"a", "b">>, <<"a", "1">>}),
     fieldName : {"firstName", "lastName"}]
    \cup [fn : {"validatePhoneNumber"},
          value : FieldValues({<<>>, <<" ">>, <<"0", "6", "7">>,
                               <<"0", "6", "7", "1", "2", "3", "4", "5", "6", "7">>,
                               <<"0", "1", "2", "3", "4", "5", "6", "7", "8", "9">>})]
    \cup [fn : {"validateEmail"},
          value : FieldValues({<<>>, <<" ">>, <<"i", "v", "a", "n">>, IvanAtExample,
                               <<"a", ".", ".", "b", "@">> \o ExampleCom})]
    \cup [fn : {"validateNotes"},
          value : FieldValues({<<>>, <<" ">>, <<"h", "i">>, Chars(500, "n"),
                               Chars(501, "n")})]
    \cup [fn : {"validateBookingForm"},
          data : [firstName : FieldValues({<<>>, <<"a", "b">>}),
                  lastName : FieldValues({<<"a">>, <<"a", "b">>}),
                  phone : FieldValues({<<"0", "6", "7", "1", "2", "3", "4", "5", "6", "7">>}),
                  email : FieldValues({IvanAtExample}),
                  bookingDate : FieldValues({Today}),
                  bookingTime : FieldValues({SlotTimes[1]}),
                  notes : FieldValues({<<"h", "i">>, Chars(501, "n")})]]

InitValidators == call \in ValidatorCalls /\ ret = Pending /\ FormIdle /\ SummaryIdle /\ DraftIdle /\ LedgerIdle

CallValidateNameOf ==
    /\ call.fn = "validateName" /\ ~ret.done
    /\ ret' = validateNameOf(call.value, call.fieldName)
    /\ UNCHANGED <<call, formVars, summaryVars, draftVars>>

CallValidatePhoneNumberOf ==
    /\ call.fn = "validatePhoneNumber" /\ ~ret.done
    /\ ret' = validatePhoneNumberOf(call.value)
    /\ UNCHANGED <<call, formVars, summaryVars, draftVars>>

CallValidateEmailOf ==
    /\ call.fn = "validateEmail" /\ ~ret.done
    /\ ret' = validateEmailOf(call.value)
    /\ UNCHANGED <<call, formVars, summaryVars, draftVars>>

CallValidateNotesOf ==
    /\ call.fn = "validateNotes" /\ ~ret.done
    /\ ret' = validateNotesOf(call.value)
    /\ UNCHANGED <<call, formVars, summaryVars, draftVars>>

CallValidateBookingFormOf ==
    /\ call.fn = "validateBookingForm" /\ ~ret.done
    /\ ret' = validateBookingFormOf(call.data)
    /\ UNCHANGED <<call, formVars, summaryVars, draftVars>>

NextValidators ==
    \/ CallValidateNameOf
    \/ CallValidatePhoneNumberOf
    \/ CallValidateEmailOf
    \/ CallValidateNotesOf
    \/ CallValidateBookingFormOf

SpecValidators == InitValidators /\ [][NextValidators]_vars

HasThrown == ret.done /\ "threw" \in DOMAIN ret

\* C20: every validator (validateName, validatePhoneNumber, validateEmail,
\* validateNotes, validateBookingForm) never throws: for every input, empty
\* and missing field values included, it returns, and a failure is reported
\* as valid = false with a non-empty message.
C20_ValidatorsNeverThrow ==
    ret.done =>
        /\ ~HasThrown
        /\ IF call.fn = "validateBookingForm"
           THEN ~ret.value.valid =>
                    /\ DOMAIN ret.value.errors # {}
                    /\ \A f \in DOMAIN ret.value.errors : ret.value.errors[f] # ""
           ELSE ~ret.value.valid => ret.value.message # ""

(***************************************************************************)
(* BookingForm: the additional services of the draft                       *)
(***************************************************************************)
\* settings.services, the services BookingForm lists
ListedServices == ServiceCatalog \cup StudioServices

ServiceIds(services) == {services[i].id : i \in 1..Len(services)}

\* the updater that never removes
toggleServiceUpdate_append(prev, service) == Append(prev, service)

\* prev.find((s) => s.id === service.id)
\*     ? prev.filter((s) => s.id !== service.id) : [...prev, service]
toggleServiceUpdate(prev, service) ==
    IF \E i \in 1..Len(prev) : prev[i].id = service.id
    THEN SelectSeq(prev, LAMBDA s : s.id # service.id)
    ELSE Append(prev, service)

InitServices ==
    /\ call = NoCall /\ ret = Pending
    /\ FormIdle /\ page = "/booking" /\ ContactIdle
    /\ selectedServices = <<>>
    /\ clothingCart = <<>>
    /\ pendingAdds = <<>>
    /\ rentalError = ""
    /\ storage = NoStorage
    /\ renderedDraft = NoDraft
    /\ effects = <<>>
    /\ LedgerIdle

\* onClick={() => toggleService(service)}; call records the click
toggleService(service) ==
    /\ page = "/booking"
    /\ selectedServices' = toggleServiceUpdate(selectedServices, service)
    /\ call' = [fn |-> "toggleService", service |-> service, prev |-> selectedServices]
    /\ UNCHANGED <<ret, formVars, summaryVars, clothingCart, pendingAdds, rentalError,
                   storage, renderedDraft, effects, ledger>>

NextServices == \E service \in ListedServices : toggleService(service)

SpecServices == InitServices /\ [][NextServices]_vars

Toggled == call.fn = "toggleService"

\* C21: after any sequence of toggleService calls from an empty selection,
\* selectedServices has no two entries with the same id; toggling a selected
\* service removes it, toggling another adds it, and toggling the same
\* service twice restores the previous set of selected ids.
C21_SelectionIsSetById ==
    /\ \A i, j \in 1..Len(selectedServices) :
          i # j => selectedServices[i].id # selectedServices[j].id
    /\ Toggled =>
          /\ call.service.id \in ServiceIds(call.prev) =>
                ServiceIds(selectedServices) = ServiceIds(call.prev) \ {call.service.id}
          /\ call.service.id \notin ServiceIds(call.prev) =>
                ServiceIds(selectedServices) = ServiceIds(call.prev) \cup {call.service.id}
          /\ ServiceIds(toggleServiceUpdate(selectedServices, call.service))
                = ServiceIds(call.prev)

C21_Witness ==
    /\ Toggled
    /\ Len(call.prev) = 3
    /\ call.service.id \in ServiceIds(call.prev)
    /\ Len(selectedServices) = 2

(***************************************************************************)
(* The booking duration against the location's minimum and the configured  *)
(* maximum.  The duration select offers every entry of durationOptions:    *)
(* from the location's minimum in steps of half an hour up to              *)
(* maxBookingHours (whole hours in the form without debouncing).           *)
(***************************************************************************)

\* the option the visitor picks in the duration select
OfferedDurations == 1..MaxDurationHalves

NextDuration ==
    \/ LoadInitialDataOk
    \/ LoadInitialDataFailed
    \/ \E hours \in OfferedDurations : SelectDuration(hours)
    \/ DebounceDuration
    \/ \E i \in 1..MaxQueries, free \in {{}, {SlotTimes[1]}} :
          i <= Len(queries) /\ AvailabilityAnswered(i, free)
    \/ \E i \in 1..MaxQueries : i <= Len(queries) /\ AvailabilityFailed(i)

SpecDuration == InitBookingForm /\ [][NextDuration]_vars

\* C22: in every reachable state of the booking flow durationHours is a
\* positive multiple of the selected location's minimum duration (one hour
\* for LOCATION_1, half an hour for any other location) and, once the
\* settings are loaded, does not exceed maxBookingHours.
C22_DurationMultipleOfMinimum ==
    /\ durationHours > 0
    /\ durationHours % (IF selectedLocation.id = LOCATION_1_UUID THEN 2 ELSE 1) = 0
    /\ settings.loaded => durationHours <= settings.maxBookingHours

\* a step in which loadInitialData or checkAvailability takes its catch branch
EndpointFails ==
    \/ loading /\ ~loading' /\ error' = "Failed to load booking data"
    \/ \E i \in InFlight : queries'[i].status = "failed"

\* C23: when a call to the settings/services endpoint or to the availability
\* endpoint fails, the page shows an error message and applies no partial
\* state: location, date, booking time, duration, services, cart, contact
\* info and the displayed slot list are exactly as before the call.
C23_FailureAppliesNoState ==
    [][EndpointFails =>
          /\ error' # ""
          /\ UNCHANGED <<selectedLocation, bookingDate, bookingTime, durationHours,
                         selectedServices, clothingCart, contactInfo,
                         availableSlots>>]_vars

(***************************************************************************)
(* The availability resolver.  The client sends date, duration and         *)
(* location id to check-availability and shows the slots of the response   *)
(* as they come; the marking of a slot is the endpoint's, whose code is     *)
(* not among the client's files.  The endpoint is rendered here by its     *)
(* contract: a slot is taken when its [start, end) interval overlaps the   *)
(* interval of a reservation of the ledger at the requested location.      *)
(***************************************************************************)

\* a reservation of the ledger, its times in minutes since midnight
Reservation(location, start, end) ==
    [location |-> location, start |-> start, end |-> end]

\* the reservations a ledger of the day may hold
Reservations ==
    { Reservation(LOCATION_1_UUID, 480, 600),
      Reservation(LOCATION_1_UUID, 630, 660),
      Reservation(LOCATION_1_UUID, 720, 780),
      Reservation("loc2", 600, 720) }

\* [start, end) of the slot meets [start, end) of the reservation
Overlaps(start, end, reservation) ==
    start < reservation.end /\ reservation.start < end

\* requestBody.location_id, set only for a non-blank id
RequestLocation(locationId) == IF locationId # "" THEN locationId ELSE "none"

\* the starts the endpoint reports as available for a request
ResolvedFree(locationId, dur) ==
    { SlotTimes[j] : j \in
        { k \in 1..Len(SlotTimes) :
            \A reservation \in ledger :
                reservation.location = RequestLocation(locationId) =>
                    ~Overlaps(MinutesOf(SlotTimes[k]),
                              MinutesOf(SlotTimes[k]) + dur * 30, reservation) } }

InitResolver == FormMounted /\ ledger \in SUBSET Reservations

\* checkAvailability after its await, the endpoint having resolved the
\* request against the ledger
AvailabilityResolved(i) ==
    /\ i \in InFlight
    /\ AvailabilityAnswered(i, ResolvedFree(selectedLocation.id, queries[i].duration))

NextResolver ==
    \/ LoadInitialDataOk
    \/ \E date \in BookableDates : SelectDate(date)
    \/ \E hours \in PickedDurations : SelectDuration(hours)
    \/ DebounceDate
    \/ DebounceDuration
    \/ \E i \in 1..MaxQueries : AvailabilityResolved(i)

SpecResolver == InitResolver /\ [][NextResolver]_vars

\* the slot of the displayed list overlaps a reservation at the selected location
SlotTaken(slot) ==
    \E reservation \in ledger :
        /\ reservation.location = selectedLocation.id
        /\ Overlaps(MinutesOf(slot.startTime), MinutesOf(slot.endTime), reservation)

MalformedTimes ==
    { <<>>,
      <<"1", "0", "0", "0">>,
      <<"a", "b", ":", "c", "d">>,
      <<"9", ":", "0">>,
      <<"1", "0", ":">> }

MalformedSlotCalls ==
    { c \in [fn : {"generateTimeSlots"},
             openingTime : ClockTimes \cup MalformedTimes,
             closingTime : ClockTimes \cup MalformedTimes,
             durationHours : {1, 2}] :
        c.openingTime \in MalformedTimes \/ c.closingTime \in MalformedTimes }

InitMalformedSlots ==
    /\ call \in MalformedSlotCalls /\ ret = Pending
    /\ FormIdle /\ SummaryIdle /\ DraftIdle /\ LedgerIdle

SpecMalformedSlots == InitMalformedSlots /\ [][NextSlots]_vars

\* C25: generateTimeSlots called with a malformed time string fails with a
\* FormatError; it never returns a slot list made from the coerced input.
C25_MalformedTimeFails ==
    (call.fn = "generateTimeSlots" /\ ret.done) =>
        ("threw" \in DOMAIN ret /\ ret.threw = "FormatError")

(***************************************************************************)
(* formatTimeRange                                                         *)
(***************************************************************************)

\* a piece of a destructured split; a missing piece prints as undefined
PieceAt(parts, i) ==
    IF i <= Len(parts) THEN parts[i]
    ELSE <<"u", "n", "d", "e", "f", "i", "n", "e", "d">>

formatTime(time) ==
    IF time = <<>> THEN <<>>
    ELSE LET parts == Split(time, ":")
         IN  PieceAt(parts, 1) \o <<":">> \o PieceAt(parts, 2)

\* Date.prototype.setHours(hour): the hour argument is taken by its integer
\* part (ToIntegerOrInfinity); halves holds twice the argument
SetHoursArgument(halves) == halves \div 2

\* startDate.setHours(hours, minutes, 0); endDate.setHours(getHours() +
\* durationHours); the end printed from getHours() and getMinutes()
formatTimeRange(startTime, hours) ==
    LET parts == Split(startTime, ":")
        startHours == NumberAt(parts, 1)
        startMinutes == NumberAt(parts, 2)
        endHours == SetHoursArgument(startHours * 2 + hours) % 24
    IN  formatTime(startTime) \o <<" ", "-", " ">>
            \o formatTime(PadStart(NatToString(endHours), 2) \o <<":">>
                              \o PadStart(NatToString(startMinutes), 2))

TimeRangeCalls ==
    [fn : {"formatTimeRange"}, startTime : ClockTimes,
     durationHours : 1..MaxDurationHalves]

InitTimeRange ==
    /\ call \in TimeRangeCalls /\ ret = Pending
    /\ FormIdle /\ SummaryIdle /\ DraftIdle /\ LedgerIdle

CallFormatTimeRange ==
    /\ call.fn = "formatTimeRange"
    /\ ~ret.done
    /\ ret' = Returned(formatTimeRange(call.startTime, call.durationHours))
    /\ UNCHANGED <<call, formVars, summaryVars, draftVars>>

NextTimeRange == CallFormatTimeRange

SpecTimeRange == InitTimeRange /\ [][NextTimeRange]_vars

\* C26: formatTimeRange prints "start - end" with end = start + duration,
\* for every HH:MM start and every duration that is a positive multiple of
\* half an hour (10:00 with 1.5 hours gives "10:00 - 11:30").
C26_EndIsStartPlusDuration ==
    (call.fn = "formatTimeRange" /\ ret.done) =>
        ret.value = call.startTime \o <<" ", "-", " ">>
                        \o HHMM((MinutesOf(call.startTime)
                                    + call.durationHours * 30) % 1440)

(***************************************************************************)
(* The rental cart: addToCart and removeFromCart of ClothingRental (and of *)
(* the props page, which has the same code), and the admin console's cart. *)
(* An addToCart call of the rental page waits for                          *)
(* clothingService.checkAvailability with the quantity it computed when    *)
(* it was called; the visitor may click again meanwhile.                   *)
(***************************************************************************)
MaxDistinctItems == 10
MaxPendingAdds == 2

\* an item of the catalogue with its on-hand quantity
RentalItem(id, quantity) == [id |-> id, quantity |-> quantity]

\* the items the visitor clicks on
ClickedItems ==
    { RentalItem("dress", 1), RentalItem("hat", 2), RentalItem("veil", 0) }

\* a restored cart one line short of the limit; its lines are left alone
FillerIds == <<"f1", "f2", "f3", "f4", "f5", "f6", "f7", "f8", "f9">>
NineLines ==
    [i \in 1..Len(FillerIds) |->
        [item |-> RentalItem(FillerIds[i], 1), quantity |-> 1]]

CartLine(item, quantity) == [item |-> item, quantity |-> quantity]

\* clothingCart.find((cartItem) => cartItem.item.id === itemId)?.quantity || 0
getItemQuantity(cart, itemId) ==
    IF \E i \in 1..Len(cart) : cart[i].item.id = itemId
    THEN cart[CHOOSE i \in 1..Len(cart) : cart[i].item.id = itemId].quantity
    ELSE 0

InCart(cart, itemId) == \E i \in 1..Len(cart) : cart[i].item.id = itemId

\* prev.map(line => line.item.id === itemId ? {...line, quantity} : line)
SetQuantity(prev, itemId, quantity) ==
    [i \in 1..Len(prev) |->
        IF prev[i].item.id = itemId THEN [prev[i] EXCEPT !.quantity = quantity]
        ELSE prev[i]]

\* prev.filter(line => line.item.id !== itemId)
WithoutItem(prev, itemId) == SelectSeq(prev, LAMBDA line : line.item.id # itemId)

addToCartUpdate_append(prev, item, newQuantity) ==
    Append(prev, CartLine(item, 1))

\* the updater addToCart hands to setClothingCart
addToCartUpdate(prev, item, newQuantity) ==
    IF InCart(prev, item.id) THEN SetQuantity(prev, item.id, newQuantity)
    ELSE Append(prev, CartLine(item, 1))

\* the booking draft the rental pages require (they navigate to /booking
\* without it)
DraftChosen ==
    /\ debounced = FALSE
    /\ selectedLocation \in FormLocations
    /\ bookingDate = Today
    /\ bookingTime = SlotTimes[1]
    /\ durationHours = 4
    /\ settings = NoSettings
    /\ loading = FALSE
    /\ availableSlots = <<>>
    /\ checkingSlots = FALSE
    /\ error = ""
    /\ debouncedDate = <<>>
    /\ debouncedDuration = 4
    /\ previousCheckRef = NoKey
    /\ apiCache = <<>>
    /\ queries = <<>>
    /\ now = 0
    /\ renderedAt = 0

InitCart ==
    /\ call = NoCall /\ ret = Pending
    /\ \/ page = "/clothing" /\ DraftChosen /\ clothingCart \in {<<>>, NineLines}
       \/ page = "/manager/dashboard" /\ FormIdle /\ clothingCart = <<>>
    /\ ContactIdle /\ LedgerIdle
    /\ selectedServices = <<>>
    /\ pendingAdds = <<>>
    /\ rentalError = ""
    /\ storage = NoStorage
    /\ renderedDraft = NoDraft
    /\ effects = <<>>

cartFrame ==
    <<ret, formVars, summaryVars, selectedServices, storage, renderedDraft, effects,
      ledger>>

\* addToCart up to its await
addToCart(item) ==
    /\ page = "/clothing"
    /\ call' = [fn |-> "addToCart", itemId |-> item.id, prev |-> clothingCart]
    /\ LET currentQuantity == getItemQuantity(clothingCart, item.id)
           newQuantity == currentQuantity + 1
       IN  IF bookingDate = <<>> \/ bookingTime = <<>> \/ durationHours = 0
           THEN rentalError' = "choose date, time and duration"
                /\ UNCHANGED pendingAdds
           ELSE IF newQuantity > item.quantity
           THEN rentalError' = "only item.quantity units available"
                /\ UNCHANGED pendingAdds
           ELSE IF Len(clothingCart) >= MaxDistinctItems /\ currentQuantity = 0
           THEN rentalError' = "maximum 10 different items"
                /\ UNCHANGED pendingAdds
           ELSE /\ Len(pendingAdds) < MaxPendingAdds
                /\ pendingAdds' =
                       Append(pendingAdds, [item |-> item, newQuantity |-> newQuantity])
                /\ UNCHANGED rentalError
    /\ UNCHANGED <<cartFrame, clothingCart>>

Settle(i) == [j \in 1..(Len(pendingAdds) - 1) |->
                 IF j < i THEN pendingAdds[j] ELSE pendingAdds[j + 1]]

\* addToCart after its await, checkAvailability having answered
AvailabilityChecked(i, available) ==
    /\ i \in 1..Len(pendingAdds)
    /\ call' = [fn |-> "addToCart", itemId |-> pendingAdds[i].item.id,
                prev |-> clothingCart]
    /\ pendingAdds' = Settle(i)
    /\ IF available
       THEN /\ clothingCart' = addToCartUpdate(clothingCart, pendingAdds[i].item,
                                               pendingAdds[i].newQuantity)
            /\ rentalError' = ""
       ELSE /\ rentalError' = "availabilityCheck.message"
            /\ UNCHANGED clothingCart
    /\ UNCHANGED cartFrame

\* addToCart after its await, the request having failed
AvailabilityCheckFailed(i) ==
    /\ i \in 1..Len(pendingAdds)
    /\ call' = [fn |-> "addToCart", itemId |-> pendingAdds[i].item.id,
                prev |-> clothingCart]
    /\ pendingAdds' = Settle(i)
    /\ rentalError' = "Failed to check availability"
    /\ UNCHANGED <<cartFrame, clothingCart>>

removeFromCart(itemId) ==
    /\ page = "/clothing"
    /\ call' = [fn |-> "removeFromCart", itemId |-> itemId, prev |-> clothingCart]
    /\ LET currentQuantity == getItemQuantity(clothingCart, itemId)
       IN  clothingCart' =
               IF currentQuantity > 1
               THEN SetQuantity(clothingCart, itemId, currentQuantity - 1)
               ELSE WithoutItem(clothingCart, itemId)
    /\ rentalError' = ""
    /\ UNCHANGED <<cartFrame, pendingAdds>>

\* adminPage.tsx: addToCart
adminAddToCart(item) ==
    /\ page = "/manager/dashboard"
    /\ getItemQuantity(clothingCart, item.id) < item.quantity
    /\ call' = [fn |-> "addToCart", itemId |-> item.id, prev |-> clothingCart]
    /\ clothingCart' =
           IF InCart(clothingCart, item.id)
           THEN SetQuantity(clothingCart, item.id,
                            getItemQuantity(clothingCart, item.id) + 1)
           ELSE Append(clothingCart, CartLine(item, 1))
    /\ UNCHANGED <<cartFrame, pendingAdds, rentalError>>

\* adminPage.tsx: removeFromCart
adminRemoveFromCart(itemId) ==
    /\ page = "/manager/dashboard"
    /\ InCart(clothingCart, itemId)
    /\ call' = [fn |-> "removeFromCart", itemId |-> itemId, prev |-> clothingCart]
    /\ clothingCart' =
           IF getItemQuantity(clothingCart, itemId) > 1
           THEN SetQuantity(clothingCart, itemId,
                            getItemQuantity(clothingCart, itemId) - 1)
           ELSE WithoutItem(clothingCart, itemId)
    /\ UNCHANGED <<cartFrame, pendingAdds, rentalError>>

NextCart ==
    \/ \E item \in ClickedItems : addToCart(item)
    \/ \E i \in 1..MaxPendingAdds, available \in BOOLEAN : AvailabilityChecked(i, available)
    \/ \E i \in 1..MaxPendingAdds : AvailabilityCheckFailed(i)
    \/ \E item \in ClickedItems : removeFromCart(item.id)
    \/ \E item \in ClickedItems : adminAddToCart(item)
    \/ \E item \in ClickedItems : adminRemoveFromCart(item.id)

SpecCart == InitCart /\ [][NextCart]_vars

\* C27: after any sequence of addToCart and removeFromCart the cart holds at
\* most one line per item id and every line's quantity q satisfies
\* 1 <= q <= the item's on-hand quantity; removing from a line of quantity 1
\* deletes the line.
C27_CartLinesWellFormed ==
    /\ \A i, j \in 1..Len(clothingCart) :
          clothingCart[i].item.id = clothingCart[j].item.id => i = j
    /\ \A i \in 1..Len(clothingCart) :
          /\ 1 <= clothingCart[i].quantity
          /\ clothingCart[i].quantity <= clothingCart[i].item.quantity
    /\ (call.fn = "removeFromCart" /\ getItemQuantity(call.prev, call.itemId) = 1)
          => ~InCart(clothingCart, call.itemId)

\* a line of quantity 1 has just been removed from a cart that also holds a
\* line of quantity 2
C27_Witness ==
    /\ call.fn = "removeFromCart"
    /\ getItemQuantity(call.prev, call.itemId) = 1
    /\ \E i \in 1..Len(clothingCart) : clothingCart[i].quantity = 2
    /\ ~InCart(clothingCart, call.itemId)

\* C28: the rental cart never holds more than 10 distinct items, also when
\* addToCart calls overlap while they wait for the availability check.
C28_AtMostTenDistinctItems ==
    page = "/clothing" => Len(clothingCart) <= MaxDistinctItems

\* C29: checkingSlots is true whenever at least one availability request is
\* in flight, and false once every request has settled.
C29_CheckingWhileInFlight == checkingSlots <=> InFlight # {}

(***************************************************************************)
(* BookingProvider: the draft restored from localStorage at mount, the     *)
(* effect that saves it after every commit in which it changed, and        *)
(* resetBooking.  A passive effect saves the draft of the render it        *)
(* belongs to; the effects of a commit run children first, and all of      *)
(* them before the next render.                                            *)
(***************************************************************************)
CurrentDraft ==
    [selectedLocation |-> selectedLocation, bookingDate |-> bookingDate,
     bookingTime |-> bookingTime, durationHours |-> durationHours,
     selectedServices |-> selectedServices, clothingCart |-> clothingCart,
     contactInfo |-> contactInfo]

\* the values of the useState calls without a saved draft, and of resetBooking
DefaultDraft ==
    [selectedLocation |-> NoLocation, bookingDate |-> <<>>, bookingTime |-> <<>>,
     durationHours |-> 4, selectedServices |-> <<>>, clothingCart |-> <<>>,
     contactInfo |-> NoContact]

\* a draft of an earlier visit
SavedDraft ==
    [selectedLocation |-> [id |-> "loc2"], bookingDate |-> Today,
     bookingTime |-> SlotTimes[1], durationHours |-> 6,
     selectedServices |-> <<>>, clothingCart |-> NineLines,
     contactInfo |-> [NoContact EXCEPT !.firstName = <<"I", "v", "a", "n">>]]

\* localStorage.setItem(STORAGE_KEY, JSON.stringify(draft))
Stored(draft) == [present |-> TRUE, json |-> TRUE, value |-> draft]

\* an item under STORAGE_KEY that JSON.parse rejects
Unparsable == [present |-> TRUE, json |-> FALSE]

\* loadState and the useState initialisers: savedState?.field || default
RestoredDraft(item) ==
    IF item.present /\ item.json
    THEN [item.value EXCEPT
             !.durationHours = IF item.value.durationHours = 0 THEN 4
                               ELSE item.value.durationHours]
    ELSE DefaultDraft

ResetDraft_kept(draft) == draft

\* the state resetBooking sets
ResetDraft(draft) == DefaultDraft

ProviderPages == {"/booking", "/summary", "/payment/success"}

InitProvider ==
    /\ call = NoCall /\ ret = Pending
    /\ FormIdle /\ ContactIdle /\ LedgerIdle
    /\ page \in ProviderPages
    /\ selectedServices = <<>>
    /\ clothingCart = <<>>
    /\ pendingAdds = <<>>
    /\ rentalError = ""
    /\ storage \in {NoStorage, Unparsable, Stored(DefaultDraft), Stored(SavedDraft)}
    /\ renderedDraft = NoDraft
    /\ effects = <<>>

providerFrame ==
    <<ret, debounced, settings, loading, availableSlots, checkingSlots, error,
      debouncedDate, debouncedDuration, previousCheckRef, apiCache, queries, now,
      renderedAt, formData, isSubmittingRef, submitLoading, submitError, requests,
      console, pendingAdds, rentalError, ledger>>

SetDraft(draft) ==
    /\ selectedLocation' = draft.selectedLocation
    /\ bookingDate' = draft.bookingDate
    /\ bookingTime' = draft.bookingTime
    /\ durationHours' = draft.durationHours
    /\ selectedServices' = draft.selectedServices
    /\ clothingCart' = draft.clothingCart
    /\ contactInfo' = draft.contactInfo

draftState ==
    <<selectedLocation, bookingDate, bookingTime, durationHours, selectedServices,
      clothingCart, contactInfo>>

SaveOf(draft) == [fn |-> "save", draft |-> draft]

\* the first render of the application: the provider restores the draft;
\* PaymentSuccessPage, a child, has an effect that calls resetBooking
MountProvider ==
    /\ ~renderedDraft.rendered
    /\ SetDraft(RestoredDraft(storage))
    /\ renderedDraft' = [rendered |-> TRUE, value |-> RestoredDraft(storage)]
    /\ effects' =
           IF page = "/payment/success"
           THEN <<[fn |-> "resetBooking", draft |-> RestoredDraft(storage)],
                  SaveOf(RestoredDraft(storage))>>
           ELSE <<SaveOf(RestoredDraft(storage))>>
    /\ call' = [fn |-> "mount"]
    /\ UNCHANGED <<providerFrame, page, storage, bookingComplete>>

\* the save effect of a commit runs, with the draft of that commit's render
SaveEffect ==
    /\ effects # <<>>
    /\ Head(effects).fn = "save"
    /\ storage' = Stored(Head(effects).draft)
    /\ effects' = Tail(effects)
    /\ UNCHANGED <<providerFrame, call, page, draftState, renderedDraft,
                   bookingComplete>>

\* the effect of PaymentSuccessPage runs: resetBooking()
PaymentSuccessEffect ==
    /\ effects # <<>>
    /\ Head(effects).fn = "resetBooking"
    /\ SetDraft(ResetDraft(CurrentDraft))
    /\ storage' = NoStorage
    /\ effects' = Tail(effects)
    /\ call' = [fn |-> "resetBooking"]
    /\ UNCHANGED <<providerFrame, page, renderedDraft, bookingComplete>>

\* the provider renders again after a state change and commits
RenderProvider ==
    /\ renderedDraft.rendered
    /\ effects = <<>>
    /\ renderedDraft.value # CurrentDraft
    /\ renderedDraft' = [rendered |-> TRUE, value |-> CurrentDraft]
    /\ effects' = <<SaveOf(CurrentDraft)>>
    /\ UNCHANGED <<providerFrame, call, page, draftState, storage, bookingComplete>>

\* nothing of the last state change is left to render or to run
Quiescent ==
    /\ renderedDraft.rendered
    /\ effects = <<>>
    /\ renderedDraft.value = CurrentDraft

\* setBookingDate, called by the date picker of the booking form
setBookingDate(date) ==
    /\ page = "/booking"
    /\ Quiescent
    /\ bookingDate' = date
    /\ call' = [fn |-> "setBookingDate"]
    /\ UNCHANGED <<providerFrame, page, selectedLocation, bookingTime, durationHours,
                   selectedServices, clothingCart, contactInfo, storage,
                   renderedDraft, effects, bookingComplete>>

\* setDurationHours, called by the duration select of the booking form
setDurationHours(hours) ==
    /\ page = "/booking"
    /\ Quiescent
    /\ durationHours' = hours
    /\ call' = [fn |-> "setDurationHours"]
    /\ UNCHANGED <<providerFrame, page, selectedLocation, bookingDate, bookingTime,
                   selectedServices, clothingCart, contactInfo, storage,
                   renderedDraft, effects, bookingComplete>>

\* navigate('/summary') at the end of the booking flow
NavigateToSummary ==
    /\ page = "/booking"
    /\ Quiescent
    /\ page' = "/summary"
    /\ UNCHANGED <<providerFrame, call, draftState, storage, renderedDraft, effects,
                   bookingComplete>>

\* handleConfirmBooking, the booking created and the response without
\* payment data: setBookingComplete(true) and the timer is set
ConfirmedWithoutPayment ==
    /\ page = "/summary"
    /\ Quiescent
    /\ ~bookingComplete
    /\ bookingComplete' = TRUE
    /\ UNCHANGED <<providerFrame, call, page, draftState, storage, renderedDraft,
                   effects>>

\* the timer fires: resetBooking(); navigate('/')
SuccessTimeout ==
    /\ page = "/summary"
    /\ bookingComplete
    /\ Quiescent
    /\ SetDraft(ResetDraft(CurrentDraft))
    /\ storage' = NoStorage
    /\ page' = "/"
    /\ call' = [fn |-> "resetBooking"]
    /\ UNCHANGED <<providerFrame, renderedDraft, effects, bookingComplete>>

\* the browser loads the application again (a reload, or the return from the
\* payment page): the state of the components is gone, the storage is kept
LoadPage(route) ==
    /\ renderedDraft.rendered
    /\ page' = route
    /\ SetDraft(DefaultDraft)
    /\ renderedDraft' = NoDraft
    /\ effects' = <<>>
    /\ bookingComplete' = FALSE
    /\ call' = NoCall
    /\ UNCHANGED <<providerFrame, storage>>

NextProvider ==
    \/ MountProvider
    \/ SaveEffect
    \/ PaymentSuccessEffect
    \/ RenderProvider
    \/ \E date \in {Today, Tomorrow} : setBookingDate(date)
    \/ \E hours \in PickedDurations : setDurationHours(hours)
    \/ NavigateToSummary
    \/ ConfirmedWithoutPayment
    \/ SuccessTimeout
    \/ \E route \in ProviderPages : LoadPage(route)

SpecProvider == InitProvider /\ [][NextProvider]_vars

\* C30: after resetBooking, once the renders and save effects it leads to
\* have run, the item stored under STORAGE_KEY is absent or is the default
\* empty draft.
C30_ResetLeavesNoDraft ==
    (call.fn = "resetBooking" /\ Quiescent) =>
        (~storage.present \/ storage = Stored(DefaultDraft))

\* resetBooking has run on the payment page and the default draft is stored
C30_Witness ==
    /\ call.fn = "resetBooking"
    /\ Quiescent
    /\ page = "/payment/success"
    /\ storage = Stored(DefaultDraft)

====
